---- MODULE Spec2Model ----
(***************************************************************************)
(* Model of the ingestion job-state machine of ActuallyOpenSnow:           *)
(* engine/workers/model_worker.py (process_model_run, get_stale_timeout)   *)
(* and engine/services/forecast_service.py (get_or_create_model_run,       *)
(* upsert_forecast), run by several callers that each hold their own       *)
(* database session (scheduler job, bootstrap worker, trigger endpoint).   *)
(*                                                                         *)
(* The database tables are the shared state.  Every session.commit() of    *)
(* the code is one atomic step; what a caller read earlier stays in its    *)
(* session object and is not read again.  The store gives read-committed   *)
(* visibility and enforces the unique constraint uq_model_run.             *)
(* Commits are assumed to succeed except for that constraint; an           *)
(* assignment to a column followed by a commit writes that column.         *)
(* Wall-clock time is the variable now, in seconds, advancing in steps of  *)
(* TickSeconds.                                                            *)
(***************************************************************************)
EXTENDS Integers, Sequences, FiniteSets, TLC

(* ------------------------------ bounds --------------------------------- *)
NumWorkers == 2
NumResorts == 2
NumRuns == 1
MaxTicks == 2
MaxCalls == 2
MaxHours == 1
MaxHist == 2
MaxModels == 2
MaxLen == 2
MantissaBits == 3
ChunkSize == 2

(* --------------------------- program constants ------------------------- *)
STALE_LOCK_FALLBACK == 2500

TickSeconds == STALE_LOCK_FALLBACK

NULL == -1
NoError == ""

Workers == 1..NumWorkers
AllResorts == 1..NumResorts
ModelIds == {"gfs"}
RunDts == 1..NumRuns
ElevationTypes == {"summit", "base"}

VARIABLES
    now,          \* wall clock, seconds
    resorts,      \* table resorts (slugs)
    model_runs,   \* table model_runs, a sequence of rows, id = index
    job_history,  \* table job_history, a sequence of rows, id = index
    forecasts,    \* table forecasts, a set of rows
    pc,           \* position of each caller inside process_model_run
    call,         \* the locals of each caller's current call
    result,       \* value returned by the caller's last call
    exc,          \* text of the exception raised by the caller's last call
    calls,        \* number of calls each caller has made
    fb,           \* each caller's position inside process_with_fallback
    boot,         \* the position of bootstrap_data and what it dispatched
    blend_forecasts,  \* table blend_forecasts, a set of rows
    blend_in,     \* the arguments of a compute_blend call
    blend_out,    \* what that call returned
    args,         \* the arguments of a call of another function
    ret           \* what that call returned or raised

vars == <<now, resorts, model_runs, job_history, forecasts,
          pc, call, result, exc, calls,
          fb, boot, blend_forecasts, blend_in, blend_out, args, ret>>

\* the state outside process_model_run and the tables it works on
aux == <<fb, boot, blend_forecasts, blend_in, blend_out, args, ret>>

db == <<resorts, model_runs, job_history, forecasts>>

(* ------------------------------ rows ----------------------------------- *)
ModelRun(m, r, st, sa) ==
    [model_id |-> m, run_datetime |-> r, status |-> st, error |-> NoError,
     resorts_processed |-> 0, started_at |-> sa, completed_at |-> NULL]

JobHistory(jt, m, st, sa, dur) ==
    [job_type |-> jt, model_id |-> m, status |-> st, started_at |-> sa,
     completed_at |-> NULL, duration_seconds |-> dur,
     resorts_processed |-> 0, error |-> NoError]

Forecast(slug, m, elev, r, n) ==
    [resort_slug |-> slug, model_id |-> m, elevation_type |-> elev,
     run_datetime |-> r, hours |-> n]

NoCall ==
    [model_id |-> "", run_dt |-> 0, start_time |-> 0, mr_id |-> 0,
     job_id |-> 0, started_at |-> NULL, elapsed |-> NULL,
     raised |-> FALSE, hours |-> NULL, loc |-> <<>>]

(* --------------------------- error texts ------------------------------- *)
ErrStaleElapsed(elapsed) == "Stale lock reset after " \o ToString(elapsed) \o "s"
ErrStaleNoStart == "Stale lock reset (no started_at)"
ErrNoResorts == "No resorts found in database"
ErrNoHours(m) == "No forecast hours extracted for " \o m
ErrAllNull(m) == "All forecast data null for " \o m
ErrDownload == "Download failed"
ErrIntegrity == "IntegrityError uq_model_run"

(* ------------------------- get_stale_timeout --------------------------- *)
RECURSIVE SumDuration(_, _)
SumDuration(jobs, S) ==
    IF S = {} THEN 0
    ELSE LET i == CHOOSE i \in S : TRUE
         IN jobs[i].duration_seconds + SumDuration(jobs, S \ {i})

HistoryFilterAnyStatus(j, m) ==
    /\ j.model_id = m
    /\ j.job_type = "model_run"

HistoryFilter(j, m) ==
    /\ j.model_id = m
    /\ j.status = "completed"
    /\ j.job_type = "model_run"

\* The timeout is the rational num/den: SQL AVG skips NULL durations and
\* yields NULL over no rows.
get_stale_timeout(jobs, m) ==
    LET S == {i \in 1..Len(jobs) :
                 HistoryFilter(jobs[i], m) /\ jobs[i].duration_seconds # NULL}
        cnt == Cardinality(S)
        sum == SumDuration(jobs, S)
    IN IF cnt > 0 /\ sum > 0
       THEN IF 2 * sum >= STALE_LOCK_FALLBACK * cnt
            THEN [num |-> 2 * sum, den |-> cnt]
            ELSE [num |-> STALE_LOCK_FALLBACK, den |-> 1]
       ELSE [num |-> STALE_LOCK_FALLBACK, den |-> 1]

Exceeds(elapsed, t) == elapsed * t.den > t.num

(* ---------------------- get_or_create_model_run ------------------------ *)
\* id of the committed row of (m, r), 0 when the query finds none
FindModelRun(runs, m, r) ==
    LET S == {i \in 1..Len(runs) :
                 runs[i].model_id = m /\ runs[i].run_datetime = r}
    IN IF S = {} THEN 0 ELSE CHOOSE i \in S : \A j \in S : i <= j

(* ----------------- the status checks of process_model_run -------------- *)
DecideSkipsFailed(status, started_at, t, jobs, m) ==
    IF status \in {"completed", "failed"} THEN "return0"
    ELSE IF status = "processing"
    THEN IF started_at # NULL
         THEN IF Exceeds(t - started_at, get_stale_timeout(jobs, m))
              THEN "reset_elapsed" ELSE "return0"
         ELSE "reset_nostart"
    ELSE "claim"

DecideNoCompletedCheck(status, started_at, t, jobs, m) ==
    IF status = "processing"
    THEN IF started_at # NULL
         THEN IF Exceeds(t - started_at, get_stale_timeout(jobs, m))
              THEN "reset_elapsed" ELSE "return0"
         ELSE "reset_nostart"
    ELSE "claim"

DecideStaleAtTimeout(status, started_at, t, jobs, m) ==
    IF status = "completed" THEN "return0"
    ELSE IF status = "processing"
    THEN IF started_at # NULL
         THEN LET to == get_stale_timeout(jobs, m)
              IN IF (t - started_at) * to.den >= to.num
                 THEN "reset_elapsed" ELSE "return0"
         ELSE "reset_nostart"
    ELSE "claim"

DecideNoStartSkips(status, started_at, t, jobs, m) ==
    IF status = "completed" THEN "return0"
    ELSE IF status = "processing"
    THEN IF started_at # NULL
         THEN IF Exceeds(t - started_at, get_stale_timeout(jobs, m))
              THEN "reset_elapsed" ELSE "return0"
         ELSE "return0"
    ELSE "claim"

Decide(status, started_at, t, jobs, m) ==
    IF status = "completed" THEN "return0"
    ELSE IF status = "processing"
    THEN IF started_at # NULL
         THEN IF Exceeds(t - started_at, get_stale_timeout(jobs, m))
              THEN "reset_elapsed" ELSE "return0"
         ELSE "reset_nostart"
    ELSE "claim"

\* what a caller keeps of a call that has returned or raised
Ended(c) == [NoCall EXCEPT !.model_id = c.model_id, !.run_dt = c.run_dt]

RECURSIVE TotalCalls(_, _)
TotalCalls(n, S) ==
    IF S = {} THEN 0
    ELSE LET w == CHOOSE w \in S : TRUE
         IN n[w] + TotalCalls(n, S \ {w})

(* ------------------------------ Init ----------------------------------- *)
\* The store as the callers find it when the engine starts: empty; holding
\* a run that an earlier process left in processing without a start time;
\* or holding a run whose earlier attempt failed.
Seeds ==
    { [runs |-> <<>>, jobs |-> <<>>],
      [runs |-> <<ModelRun("gfs", 1, "processing", NULL)>>, jobs |-> <<>>],
      [runs |-> <<[ModelRun("gfs", 1, "failed", 0)
                     EXCEPT !.error = ErrNoHours("gfs")]>>,
       jobs |-> <<[JobHistory("model_run", "gfs", "failed", 0, 0)
                     EXCEPT !.error = ErrNoHours("gfs"),
                            !.completed_at = 0]>>] }

\* the locals of process_with_fallback before it is called
NoFallback ==
    [state |-> "idle", model_id |-> "", candidates |-> <<>>, idx |-> 0,
     tried |-> <<>>, last_error |-> NoError, ret |-> NULL, error |-> NoError]

\* no function is being called
NoArgs == [fn |-> ""]

NoRet == [called |-> FALSE]

\* compute_blend before it is called
NoBlendIn == [forecasts |-> <<>>, weights |-> <<>>]

NoBlendOut ==
    [called |-> FALSE, raised |-> FALSE, times_utc |-> <<>>,
     hourly_data |-> <<>>, enhanced_hourly_data |-> <<>>]

\* bootstrap_data before it is called
NoBoot ==
    [state |-> "off", models_to_process |-> {}, submitted |-> {},
     finished |-> {}, job_id |-> 0, sweeps |-> 0]

Idle ==
    /\ forecasts = {}
    /\ fb = [w \in Workers |-> NoFallback]
    /\ boot = NoBoot
    /\ blend_forecasts = {}
    /\ blend_in = NoBlendIn
    /\ blend_out = NoBlendOut
    /\ args = NoArgs
    /\ ret = NoRet
    /\ pc = [w \in Workers |-> "idle"]
    /\ call = [w \in Workers |-> NoCall]
    /\ result = [w \in Workers |-> NULL]
    /\ exc = [w \in Workers |-> NoError]
    /\ calls = [w \in Workers |-> 0]

Init ==
    /\ now = 0
    /\ resorts = {}
    /\ \E seed \in Seeds : model_runs = seed.runs /\ job_history = seed.jobs
    /\ Idle

(* --------------------------- environment ------------------------------- *)
Tick ==
    /\ now < MaxTicks * TickSeconds
    /\ now' = now + TickSeconds
    /\ UNCHANGED <<db, pc, call, result, exc, calls>>
    /\ UNCHANGED aux

\* bootstrap_data seeds the resorts table when it is empty
SeedResorts ==
    /\ resorts = {}
    /\ resorts' = AllResorts
    /\ UNCHANGED <<now, model_runs, job_history, forecasts,
                   pc, call, result, exc, calls>>
    /\ UNCHANGED aux

(* ------------------------- process_model_run --------------------------- *)
\* lines 58-89: look the run up and decide; returns 0 for a completed run
\* and for a run that is freshly in processing
Begin(w, m, r) ==
    /\ pc[w] \in {"idle", "done", "raised"}
    /\ TotalCalls(calls, Workers) < MaxCalls
    /\ LET id == FindModelRun(model_runs, m, r)
           status == IF id = 0 THEN "pending" ELSE model_runs[id].status
           sa == IF id = 0 THEN NULL ELSE model_runs[id].started_at
           d == Decide(status, sa, now, job_history, m)
       IN /\ pc' = [pc EXCEPT ![w] =
                       CASE d = "return0" -> "done"
                         [] d = "claim" -> "claim"
                         [] OTHER -> "reset"]
          /\ call' = [call EXCEPT ![w] =
                       IF d = "return0"
                       THEN [NoCall EXCEPT !.model_id = m, !.run_dt = r]
                       ELSE [NoCall EXCEPT !.model_id = m, !.run_dt = r,
                                           !.start_time = now, !.mr_id = id,
                                           !.elapsed = IF d = "reset_elapsed"
                                                       THEN now - sa
                                                       ELSE NULL]]
          /\ result' = [result EXCEPT ![w] = IF d = "return0" THEN 0 ELSE NULL]
    /\ exc' = [exc EXCEPT ![w] = NoError]
    /\ calls' = [calls EXCEPT ![w] = @ + 1]
    /\ UNCHANGED <<now, db>>
    /\ UNCHANGED aux

\* lines 77-79 and 87-89: the stale lock is reset and committed
ResetStale(w) ==
    /\ pc[w] = "reset"
    /\ LET c == call[w]
           text == IF c.elapsed # NULL THEN ErrStaleElapsed(c.elapsed)
                   ELSE ErrStaleNoStart
       IN model_runs' = [model_runs EXCEPT ![c.mr_id].status = "failed",
                                           ![c.mr_id].error = text]
    /\ pc' = [pc EXCEPT ![w] = "claim"]
    /\ UNCHANGED <<now, resorts, job_history, forecasts,
                   call, result, exc, calls>>
    /\ UNCHANGED aux

NoUniqueConstraint(runs, m, r) == FALSE

\* uq_model_run: the INSERT of a second row of (m, r) is rejected
UniqueViolation(runs, m, r) == FindModelRun(runs, m, r) # 0

MarkProcessingNoStart(row, t) == [row EXCEPT !.status = "processing"]

\* lines 91-93: the claim written to the row
MarkProcessing(row, t) ==
    [row EXCEPT !.status = "processing", !.started_at = t]

\* lines 91-104: the claim is committed (a new row is inserted, an existing
\* one is updated), then the JobHistory row of this attempt.  The two
\* commits are adjacent and no reader distinguishes the state between them.
Claim(w) ==
    /\ pc[w] = "claim"
    /\ LET c == call[w]
           job == JobHistory("model_run", c.model_id, "started", now, NULL)
       IN IF c.mr_id = 0 /\ UniqueViolation(model_runs, c.model_id, c.run_dt)
          THEN /\ pc' = [pc EXCEPT ![w] = "raised"]
               /\ exc' = [exc EXCEPT ![w] = ErrIntegrity]
               /\ call' = [call EXCEPT ![w] = Ended(c)]
               /\ UNCHANGED <<model_runs, job_history>>
          ELSE /\ model_runs' =
                     IF c.mr_id = 0
                     THEN Append(model_runs, MarkProcessing(
                            ModelRun(c.model_id, c.run_dt, "pending", NULL),
                            now))
                     ELSE [model_runs EXCEPT
                            ![c.mr_id] = MarkProcessing(@, now)]
               /\ job_history' = Append(job_history, job)
               /\ call' = [call EXCEPT
                     ![w].mr_id = IF c.mr_id = 0 THEN Len(model_runs) + 1
                                  ELSE c.mr_id,
                     ![w].started_at = now,
                     ![w].job_id = Len(job_history) + 1]
               /\ pc' = [pc EXCEPT ![w] = "resorts"]
               /\ UNCHANGED exc
    /\ UNCHANGED <<now, resorts, forecasts, result, calls>>
    /\ UNCHANGED aux

FailRunOnly(w, text) ==
    /\ model_runs' = [model_runs EXCEPT ![call[w].mr_id].status = "failed",
                                        ![call[w].mr_id].error = text]
    /\ pc' = [pc EXCEPT ![w] = "raised"]
    /\ exc' = [exc EXCEPT ![w] = text]
    /\ call' = [call EXCEPT ![w] = Ended(call[w])]
    /\ UNCHANGED <<job_history, forecasts, result>>

\* lines 232-241: both rows are marked failed and the exception is re-raised
Fail(w, text) ==
    /\ model_runs' = [model_runs EXCEPT ![call[w].mr_id].status = "failed",
                                        ![call[w].mr_id].error = text]
    /\ job_history' = [job_history EXCEPT
                          ![call[w].job_id].status = "failed",
                          ![call[w].job_id].error = text,
                          ![call[w].job_id].completed_at = now,
                          ![call[w].job_id].duration_seconds =
                              now - call[w].start_time]
    /\ pc' = [pc EXCEPT ![w] = "raised"]
    /\ exc' = [exc EXCEPT ![w] = text]
    /\ call' = [call EXCEPT ![w] = Ended(call[w])]
    /\ UNCHANGED <<forecasts, result>>

\* lines 107-125: the locations are read and extraction is invoked
StartExtract(w) ==
    /\ pc[w] = "resorts"
    /\ IF resorts = {}
       THEN Fail(w, ErrNoResorts)
       ELSE /\ pc' = [pc EXCEPT ![w] = "extracting"]
            /\ UNCHANGED <<model_runs, job_history, forecasts,
                           call, result, exc>>
    /\ UNCHANGED <<now, resorts, calls>>
    /\ UNCHANGED aux

\* What extraction hands back for a location: data that is valid, data that
\* is all null, or data on which the location's own processing raises (the
\* exception is caught and logged at lines 204-205).
LocResults == [AllResorts -> {"valid", "null", "error"}]

\* line 122: extract_all_hours_batch raises, or returns the hours it found
\* and one result per location
ExtractReturns(w, raised, hours, loc) ==
    /\ pc[w] = "extracting"
    /\ IF raised \/ hours = 0 THEN loc = NoCall.loc ELSE loc \in LocResults
    /\ raised => hours = 0
    /\ call' = [call EXCEPT ![w].raised = raised,
                            ![w].hours = IF raised THEN NULL ELSE hours,
                            ![w].loc = loc]
    /\ pc' = [pc EXCEPT ![w] = "persist"]
    /\ UNCHANGED <<now, db, result, exc, calls>>
    /\ UNCHANGED aux

ValidLocations(loc) == {s \in DOMAIN loc : loc[s] = "valid"}

ExtractionErrorNoHoursCheck(c) ==
    IF c.raised THEN ErrDownload
    ELSE IF ValidLocations(c.loc) = {} THEN ErrAllNull(c.model_id)
    ELSE NoError

ExtractionErrorAnyNull(c) ==
    IF c.raised THEN ErrDownload
    ELSE IF c.hours = 0 THEN ErrNoHours(c.model_id)
    ELSE IF \E s \in DOMAIN c.loc : c.loc[s] # "valid"
         THEN ErrAllNull(c.model_id)
    ELSE NoError

\* lines 122-138 and 207-211: the exception that ends the attempt, if any
ExtractionError(c) ==
    IF c.raised THEN ErrDownload
    ELSE IF c.hours = 0 THEN ErrNoHours(c.model_id)
    ELSE IF ValidLocations(c.loc) = {} THEN ErrAllNull(c.model_id)
    ELSE NoError

\* lines 146-202 with upsert_forecast: one row per location with valid data
\* and elevation type, replacing the row of the same key
Upserted(fs, c) ==
    LET keys == {<<s, e>> : s \in ValidLocations(c.loc), e \in ElevationTypes}
        kept == {f \in fs : ~ (/\ f.model_id = c.model_id
                               /\ f.run_datetime = c.run_dt
                               /\ <<f.resort_slug, f.elevation_type>> \in keys)}
    IN kept \cup {Forecast(k[1], c.model_id, k[2], c.run_dt, c.hours) :
                     k \in keys}

\* lines 127-217 and 232-241: the forecasts are built and committed with the
\* completed run, or the attempt fails
Persist(w) ==
    /\ pc[w] = "persist"
    /\ LET c == call[w]
           err == ExtractionError(c)
       IN IF err # NoError
          THEN Fail(w, err)
          ELSE /\ forecasts' = Upserted(forecasts, c)
               /\ model_runs' = [model_runs EXCEPT
                      ![c.mr_id].status = "completed",
                      ![c.mr_id].completed_at = now,
                      ![c.mr_id].resorts_processed =
                          Cardinality(ValidLocations(c.loc))]
               /\ pc' = [pc EXCEPT ![w] = "jobdone"]
               /\ UNCHANGED <<job_history, call, result, exc>>
    /\ UNCHANGED <<now, resorts, calls>>
    /\ UNCHANGED aux

FinishJobLeavesStarted(w) ==
    /\ pc[w] = "jobdone"
    /\ result' = [result EXCEPT ![w] = Cardinality(ValidLocations(call[w].loc))]
    /\ call' = [call EXCEPT ![w] = Ended(call[w])]
    /\ pc' = [pc EXCEPT ![w] = "done"]
    /\ UNCHANGED <<now, resorts, model_runs, job_history, forecasts, exc, calls>>
    /\ UNCHANGED aux

\* lines 219-230: the JobHistory row is completed and the count returned
FinishJob(w) ==
    /\ pc[w] = "jobdone"
    /\ LET c == call[w]
           n == Cardinality(ValidLocations(c.loc))
       IN /\ job_history' = [job_history EXCEPT
                  ![c.job_id].status = "completed",
                  ![c.job_id].completed_at = now,
                  ![c.job_id].duration_seconds = now - c.start_time,
                  ![c.job_id].resorts_processed = n]
          /\ result' = [result EXCEPT ![w] = n]
    /\ call' = [call EXCEPT ![w] = Ended(call[w])]
    /\ pc' = [pc EXCEPT ![w] = "done"]
    /\ UNCHANGED <<now, resorts, model_runs, forecasts, exc, calls>>
    /\ UNCHANGED aux

Next ==
    \/ Tick
    \/ SeedResorts
    \/ \E w \in Workers, m \in ModelIds, r \in RunDts : Begin(w, m, r)
    \/ \E w \in Workers : ResetStale(w)
    \/ \E w \in Workers : Claim(w)
    \/ \E w \in Workers : StartExtract(w)
    \/ \E w \in Workers, raised \in BOOLEAN, hours \in 0..MaxHours,
          loc \in LocResults \cup {NoCall.loc} :
          ExtractReturns(w, raised, hours, loc)
    \/ \E w \in Workers : Persist(w)
    \/ \E w \in Workers : FinishJob(w)

Spec == Init /\ [][Next]_vars

(* -------------- the stale-lock decision over any history --------------- *)
\* The JobHistory rows the program writes: model_run rows of any model in
\* status started, completed or failed (model_worker.py), and blend rows
\* without a model id (blend_worker.py).
HistModels == {"gfs", "hrrr"}

HistRows ==
    {JobHistory("model_run", m, "started", 0, NULL) : m \in HistModels}
    \cup {JobHistory("model_run", m, "completed", 0, d * TickSeconds) :
             m \in HistModels, d \in 0..MaxTicks}
    \cup {JobHistory("model_run", m, "failed", 0, d * TickSeconds) :
             m \in HistModels, d \in 1..MaxTicks}
    \cup {JobHistory("blend", "", "started", 0, NULL),
          JobHistory("blend", "", "completed", 0, MaxTicks * TickSeconds)}

Histories == UNION {[1..n -> HistRows] : n \in 0..MaxHist}

\* A run was claimed at time 0; callers arrive at any later time and find
\* any history.
InitTimeout ==
    /\ now \in {k * TickSeconds : k \in 0..MaxTicks}
    /\ resorts = AllResorts
    /\ model_runs = <<ModelRun("gfs", 1, "processing", 0)>>
    /\ job_history \in Histories
    /\ Idle

NextTimeout ==
    \/ Tick
    \/ \E w \in Workers, m \in ModelIds, r \in RunDts : Begin(w, m, r)
    \/ \E w \in Workers : ResetStale(w)

SpecTimeout == InitTimeout /\ [][NextTimeout]_vars

(* ------------------------ process_with_fallback ------------------------ *)
\* the models the scheduler has a job for
MODEL_SCHEDULES == {"hrrr", "gfs"}

update_interval_hours(m) == IF m = "hrrr" THEN 1 ELSE 6
availability_buffer_hours == 3
SecondsPerHour == 60 * 60

\* The wall clock at now = 0, such that the latest expected run of gfs
\* changes from run 1 to run 2 when now reaches TickSeconds.
EngineStart ==
    (availability_buffer_hours + 2 * update_interval_hours("gfs"))
        * SecondsPerHour
    - TickSeconds

\* HerbieClient._get_latest_run_dt: the run of model m whose data should be
\* available, as the number of the update interval it starts
_get_latest_run_dt(m, t) ==
    ((EngineStart + t) - availability_buffer_hours * SecondsPerHour)
        \div (update_interval_hours(m) * SecondsPerHour)

\* HerbieClient.get_candidate_run_dts: the latest run, then the one before
get_candidate_run_dts(m, t) ==
    <<_get_latest_run_dt(m, t), _get_latest_run_dt(m, t) - 1>>

\* scheduler.py 49-51: the locals of process_with_fallback before the loop
Fired(m, t) ==
    [NoFallback EXCEPT !.state = "loop", !.model_id = m,
                       !.candidates = get_candidate_run_dts(m, t),
                       !.idx = 1]

\* the exceptions of process_model_run that are a ValueError (lines 110, 138
\* and 208); what extraction raises and the IntegrityError are not
IsValueError(text, m) == text \in {ErrNoResorts, ErrNoHours(m), ErrAllNull(m)}

\* scheduler.py 49-51: the job of model m is fired by caller w
Fire(w, m) ==
    /\ fb[w].state = "idle"
    /\ pc[w] = "idle"
    /\ fb' = [fb EXCEPT ![w] = Fired(m, now)]
    /\ UNCHANGED <<now, db, pc, call, result, exc, calls,
                   boot, blend_forecasts, blend_in, blend_out,
                   args, ret>>

\* scheduler.py 52-54: process_model_run is called for the next candidate
TryCandidate(w) ==
    /\ fb[w].state = "loop"
    /\ pc[w] = "idle"
    /\ Begin(w, fb[w].model_id, fb[w].candidates[fb[w].idx])

HandleReturnsZeroAfterFirst(w) ==
    /\ fb[w].state = "loop"
    /\ pc[w] \in {"done", "raised"}
    /\ LET f == [fb[w] EXCEPT !.tried = Append(@, call[w].run_dt)]
       IN fb' = [fb EXCEPT ![w] =
            IF pc[w] = "done"
            THEN [f EXCEPT !.state = "returned", !.ret = result[w]]
            ELSE IF IsValueError(exc[w], f.model_id)
            THEN [f EXCEPT !.state = "returned", !.ret = 0,
                           !.last_error = exc[w]]
            ELSE [f EXCEPT !.state = "raised", !.error = exc[w]]]
    /\ pc' = [pc EXCEPT ![w] = "idle"]
    /\ UNCHANGED <<now, db, call, result, exc, calls,
                   boot, blend_forecasts, blend_in, blend_out,
                   args, ret>>

HandleTriesOlderAfterReturn(w) ==
    /\ fb[w].state = "loop"
    /\ pc[w] \in {"done", "raised"}
    /\ LET f == [fb[w] EXCEPT !.tried = Append(@, call[w].run_dt)]
       IN fb' = [fb EXCEPT ![w] =
            IF pc[w] = "done" /\ (result[w] > 0 \/ f.idx = Len(f.candidates))
            THEN [f EXCEPT !.state = "returned", !.ret = result[w]]
            ELSE IF pc[w] = "done" \/ IsValueError(exc[w], f.model_id)
            THEN IF f.idx < Len(f.candidates)
                 THEN [f EXCEPT !.idx = @ + 1, !.last_error = exc[w]]
                 ELSE [f EXCEPT !.state = "returned", !.ret = 0,
                                !.last_error = exc[w]]
            ELSE [f EXCEPT !.state = "raised", !.error = exc[w]]]
    /\ pc' = [pc EXCEPT ![w] = "idle"]
    /\ UNCHANGED <<now, db, call, result, exc, calls,
                   boot, blend_forecasts, blend_in, blend_out,
                   args, ret>>

\* scheduler.py 52-59: the call for a candidate has ended.  Its result is
\* returned; a ValueError moves the loop to the next candidate, and past the
\* last candidate 0 is returned; any other exception propagates.
Handle(w) ==
    /\ fb[w].state = "loop"
    /\ pc[w] \in {"done", "raised"}
    /\ LET f == [fb[w] EXCEPT !.tried = Append(@, call[w].run_dt)]
       IN fb' = [fb EXCEPT ![w] =
            IF pc[w] = "done"
            THEN [f EXCEPT !.state = "returned", !.ret = result[w]]
            ELSE IF IsValueError(exc[w], f.model_id)
            THEN IF f.idx < Len(f.candidates)
                 THEN [f EXCEPT !.idx = @ + 1, !.last_error = exc[w]]
                 ELSE [f EXCEPT !.state = "returned", !.ret = 0,
                                !.last_error = exc[w]]
            ELSE [f EXCEPT !.state = "raised", !.error = exc[w]]]
    /\ pc' = [pc EXCEPT ![w] = "idle"]
    /\ UNCHANGED <<now, db, call, result, exc, calls,
                   boot, blend_forecasts, blend_in, blend_out,
                   args, ret>>

\* The callers of process_with_fallback (the scheduler's model job and a
\* bootstrap worker), each with a session of its own.  They start on a store
\* that holds the locations or not and any of the seeds, at a time when run
\* 1 is the latest candidate or the previous one.
InitFallback ==
    /\ now \in {0, TickSeconds}
    /\ resorts \in {{}, AllResorts}
    /\ \E seed \in Seeds : model_runs = seed.runs /\ job_history = seed.jobs
    /\ Idle

NextFallback ==
    \/ \E w \in Workers, m \in ModelIds : Fire(w, m)
    \/ \E w \in Workers : TryCandidate(w)
    \/ \E w \in Workers : ResetStale(w)
    \/ \E w \in Workers : Claim(w)
    \/ \E w \in Workers : StartExtract(w)
    \/ \E w \in Workers, raised \in BOOLEAN, hours \in 0..MaxHours,
          loc \in LocResults \cup {NoCall.loc} :
          ExtractReturns(w, raised, hours, loc)
    \/ \E w \in Workers : Persist(w)
    \/ \E w \in Workers : FinishJob(w)
    \/ \E w \in Workers : Handle(w)

SpecFallback == InitFallback /\ [][NextFallback]_vars

(* ------------- the periodic model job after a crashed attempt ---------- *)
\* the caller that runs the scheduler's job of the model (max_instances = 1)
Scheduler == CHOOSE w \in Workers : \A v \in Workers : w <= v

\* scheduler.py 163-171: the job has ended, its session is closed, and the
\* interval trigger fires it again.  The counter of calls restarts with the
\* job; jobs are fired as long as the history table is within its bound.
Refire(w) ==
    /\ fb[w].state \in {"returned", "raised"}
    /\ Len(job_history) <= MaxHist
    /\ fb' = [fb EXCEPT ![w] = NoFallback]
    /\ calls' = [calls EXCEPT ![w] = 0]
    /\ UNCHANGED <<now, db, pc, call, result, exc,
                   boot, blend_forecasts, blend_in, blend_out,
                   args, ret>>

\* An actor claimed the latest run at time 0 and crashed during extraction:
\* the run's row is in processing, the attempt's JobHistory row is started,
\* and nobody works on them.
InitRecover ==
    /\ now = 0
    /\ resorts = AllResorts
    /\ model_runs = <<ModelRun("gfs", _get_latest_run_dt("gfs", 0), "processing", 0)>>
    /\ job_history = <<JobHistory("model_run", "gfs", "started", 0, NULL)>>
    /\ Idle

SchedulerJob ==
    \/ \E m \in ModelIds : Fire(Scheduler, m)
    \/ TryCandidate(Scheduler)
    \/ ResetStale(Scheduler)
    \/ Claim(Scheduler)
    \/ StartExtract(Scheduler)
    \/ \E raised \in BOOLEAN, hours \in 0..MaxHours,
          loc \in LocResults \cup {NoCall.loc} :
          ExtractReturns(Scheduler, raised, hours, loc)
    \/ Persist(Scheduler)
    \/ FinishJob(Scheduler)
    \/ Handle(Scheduler)
    \/ Refire(Scheduler)

NextRecover == Tick \/ SchedulerJob

\* The clock advances, and the scheduler keeps firing the job and runs each
\* firing to its end.
SpecRecover ==
    /\ InitRecover
    /\ [][NextRecover]_vars
    /\ WF_vars(Tick)
    /\ WF_vars(SchedulerJob)

(* ---------------------------- the blend sweep -------------------------- *)
\* forecast_service.get_latest_forecast: the row of the newest run, if any
get_latest_forecast(fs, slug, m, elev) ==
    {f \in fs : /\ f.resort_slug = slug /\ f.model_id = m
                /\ f.elevation_type = elev
                /\ \A g \in fs :
                      (/\ g.resort_slug = slug /\ g.model_id = m
                       /\ g.elevation_type = elev)
                      => g.run_datetime <= f.run_datetime}

\* blend_worker.compute_resort_blend: the runs the blend of a location and
\* elevation is computed from, one per model that has a forecast
source_runs(fs, slug, elev) ==
    {<<f.model_id, f.run_datetime>> :
        f \in UNION {get_latest_forecast(fs, slug, m, elev) :
                        m \in MODEL_SCHEDULES}}

\* blend_worker.compute_all_blends, lines 103-116: one row per location and
\* elevation that has a forecast, replacing the row of the same key
Blended(fs) ==
    {[resort_slug |-> k[1], elevation_type |-> k[2],
      source_model_runs |-> source_runs(fs, k[1], k[2])] :
        k \in {q \in resorts \X ElevationTypes :
                  source_runs(fs, q[1], q[2]) # {}}}

(* ------------------------------ bootstrap_data ------------------------- *)
CompletedModels(runs) ==
    {runs[i].model_id : i \in {j \in 1..Len(runs) :
                                  runs[j].status = "completed"}}

\* scheduler.py 77-107: the locations are seeded when there are none, and
\* the models without a completed run are collected
BootStart ==
    /\ boot.state = "off"
    /\ resorts' = IF resorts = {} THEN AllResorts ELSE resorts
    /\ boot' = [boot EXCEPT
                  !.state = "dispatched",
                  !.models_to_process =
                      MODEL_SCHEDULES \ CompletedModels(model_runs)]
    /\ UNCHANGED <<now, model_runs, job_history, forecasts, pc, call,
                   result, exc, calls, fb, blend_forecasts, blend_in,
                   blend_out, args, ret>>

\* scheduler.py 113-117 and 62-66: a thread of the pool takes the task of a
\* model and calls process_with_fallback with a session of its own
Submit(w, m) ==
    /\ boot.state = "dispatched"
    /\ m \in boot.models_to_process \ boot.submitted
    /\ fb[w].state = "idle"
    /\ pc[w] = "idle"
    /\ fb' = [fb EXCEPT ![w] = Fired(m, now)]
    /\ boot' = [boot EXCEPT !.submitted = @ \cup {m}]
    /\ UNCHANGED <<now, db, pc, call, result, exc, calls,
                   blend_forecasts, blend_in, blend_out,
                   args, ret>>

BootReturnStopsTheOthers(w) ==
    /\ boot.state = "dispatched"
    /\ fb[w].state \in {"returned", "raised"}
    /\ boot' = [boot EXCEPT
                  !.finished = IF fb[w].state = "raised"
                               THEN boot.models_to_process
                               ELSE @ \cup {fb[w].model_id}]
    /\ fb' = [fb EXCEPT ![w] = NoFallback]
    /\ UNCHANGED <<now, db, pc, call, result, exc, calls,
                   blend_forecasts, blend_in, blend_out,
                   args, ret>>

\* scheduler.py 66-72 and 118-123: process_with_fallback has returned or
\* raised; the task ends with the model's count, 0 after an exception
BootReturn(w) ==
    /\ boot.state = "dispatched"
    /\ fb[w].state \in {"returned", "raised"}
    /\ boot' = [boot EXCEPT !.finished = @ \cup {fb[w].model_id}]
    /\ fb' = [fb EXCEPT ![w] = NoFallback]
    /\ UNCHANGED <<now, db, pc, call, result, exc, calls,
                   blend_forecasts, blend_in, blend_out,
                   args, ret>>

\* scheduler.py 118-134 and blend_worker.py 92-101: every task has ended;
\* when a completed run exists compute_all_blends records its job
BlendStart ==
    /\ boot.state = "dispatched"
    /\ boot.finished = boot.models_to_process
    /\ IF CompletedModels(model_runs) # {}
       THEN /\ job_history' = Append(job_history,
                  JobHistory("blend", "", "started", now, NULL))
            /\ boot' = [boot EXCEPT !.state = "blending",
                                    !.job_id = Len(job_history) + 1]
       ELSE /\ boot' = [boot EXCEPT !.state = "done"]
            /\ UNCHANGED job_history
    /\ UNCHANGED <<now, resorts, model_runs, forecasts, pc, call, result,
                   exc, calls, fb, blend_forecasts, blend_in, blend_out,
                   args, ret>>

\* blend_worker.py 103-128: the blends are computed and committed, and the
\* job is completed with their number
BlendFinish ==
    /\ boot.state = "blending"
    /\ blend_forecasts' =
           {b \in blend_forecasts :
               \A n \in Blended(forecasts) :
                  ~ (/\ n.resort_slug = b.resort_slug
                     /\ n.elevation_type = b.elevation_type)}
           \cup Blended(forecasts)
    /\ job_history' = [job_history EXCEPT
           ![boot.job_id].status = "completed",
           ![boot.job_id].completed_at = now,
           ![boot.job_id].duration_seconds = now - job_history[boot.job_id].started_at,
           ![boot.job_id].resorts_processed =
               Cardinality(Blended(forecasts))]
    /\ boot' = [boot EXCEPT !.state = "done", !.sweeps = @ + 1]
    /\ UNCHANGED <<now, resorts, model_runs, forecasts, pc, call, result,
                   exc, calls, fb, blend_in, blend_out,
                   args, ret>>

\* The engine starts on a store that is empty, or holds one of the seeds,
\* or holds a completed run of gfs with its forecasts.
InitBoot ==
    /\ now = 0
    /\ \/ /\ resorts \in {{}, AllResorts}
          /\ \E seed \in Seeds :
                model_runs = seed.runs /\ job_history = seed.jobs
          /\ forecasts = {}
       \/ /\ resorts = AllResorts
          /\ model_runs = <<[ModelRun("gfs", 1, "completed", 0)
                               EXCEPT !.completed_at = 0,
                                      !.resorts_processed = NumResorts]>>
          /\ job_history = <<[JobHistory("model_run", "gfs", "completed",
                                         0, 0)
                                EXCEPT !.completed_at = 0,
                                       !.resorts_processed = NumResorts]>>
          /\ forecasts = {Forecast(slug, "gfs", e, 1, MaxHours) :
                             slug \in AllResorts, e \in ElevationTypes}
    /\ pc = [w \in Workers |-> "idle"]
    /\ call = [w \in Workers |-> NoCall]
    /\ result = [w \in Workers |-> NULL]
    /\ exc = [w \in Workers |-> NoError]
    /\ calls = [w \in Workers |-> 0]
    /\ fb = [w \in Workers |-> NoFallback]
    /\ boot = NoBoot
    /\ blend_forecasts = {}
    /\ blend_in = NoBlendIn
    /\ blend_out = NoBlendOut
    /\ args = NoArgs
    /\ ret = NoRet

NextBoot ==
    \/ BootStart
    \/ \E w \in Workers, m \in MODEL_SCHEDULES : Submit(w, m)
    \/ \E w \in Workers : TryCandidate(w)
    \/ \E w \in Workers : ResetStale(w)
    \/ \E w \in Workers : Claim(w)
    \/ \E w \in Workers : StartExtract(w)
    \/ \E w \in Workers, raised \in BOOLEAN, hours \in 0..MaxHours,
          loc \in LocResults \cup {NoCall.loc} :
          ExtractReturns(w, raised, hours, loc)
    \/ \E w \in Workers : Persist(w)
    \/ \E w \in Workers : FinishJob(w)
    \/ \E w \in Workers : Handle(w)
    \/ \E w \in Workers : BootReturn(w)
    \/ BlendStart
    \/ BlendFinish

SpecBoot == InitBoot /\ [][NextBoot]_vars

(* ------------------------------ compute_blend -------------------------- *)
\* Python floats, with MantissaBits bits of precision instead of 53: a float
\* is an integer number of units of 2^-MantissaBits, with at most
\* MantissaBits significant bits when it is 2^MantissaBits units or more.
\* Every operation rounds its exact result to the nearest float, ties to
\* the even one.
RECURSIVE Pow2(_)
Pow2(k) == IF k = 0 THEN 1 ELSE 2 * Pow2(k - 1)

FloatOne == Pow2(MantissaBits)

\* the spacing of the floats around a / b
RECURSIVE Spacing(_, _, _)
Spacing(a, b, step) ==
    IF a < FloatOne * step * b THEN step ELSE Spacing(a, b, 2 * step)

\* a / b (a >= 0, b > 0) rounded to a float
Round(a, b) ==
    LET step == Spacing(a, b, 1)
        q == a \div (b * step)
        r == a - q * b * step
    IN IF 2 * r > b * step THEN (q + 1) * step
       ELSE IF 2 * r = b * step THEN (q + (q % 2)) * step
       ELSE q * step

Abs(x) == IF x < 0 THEN -x ELSE x

Sign(x) == IF x < 0 THEN -1 ELSE 1

FMul(x, y) == Sign(x) * Sign(y) * Round(Abs(x) * Abs(y), FloatOne)
FAdd(x, y) == Sign(x + y) * Round(Abs(x + y), 1)
FDiv(x, y) == Sign(x) * Sign(y) * Round(Abs(x) * FloatOne, Abs(y))

\* a sample of a series: None, or a float
None == <<>>
Some(x) == <<x>>

\* engine/config.py BLEND_WEIGHTS (defaults), as floats
BLEND_WEIGHTS ==
    [m \in {"hrrr", "gfs", "gefs"} |->
        CASE m = "hrrr" -> 3 * FloatOne
          [] m = "gfs" -> 2 * FloatOne
          [] OTHER -> FloatOne]

\* lines 28 and 51: weights or BLEND_WEIGHTS, then
\* model_weights.get(model_id, 1.0)
model_weights(m) ==
    LET given == IF DOMAIN blend_in.weights = {} THEN BLEND_WEIGHTS
                 ELSE blend_in.weights
    IN IF m \in DOMAIN given THEN given[m] ELSE FloatOne

enhanced_vars == {"enhanced_snowfall", "rain"}

\* line 33
RECURSIVE min_hours(_)
min_hours(fs) ==
    IF Len(fs) = 1 THEN Len(fs[1].times_utc)
    ELSE LET rest == min_hours(Tail(fs))
         IN IF Len(fs[1].times_utc) < rest THEN Len(fs[1].times_utc) ELSE rest

\* lines 44-50 and 73-80: model i reports var with a value at hour h
Contributes(data, var, h) ==
    /\ var \in DOMAIN data
    /\ h <= Len(data[var])
    /\ data[var][h] # None

\* lines 40-53 and 69-83: weighted_sum and total_weight after the first i
\* models, in the order of the dict
RECURSIVE SumsNullAsZero(_, _, _, _, _)
SumsNullAsZero(fs, field, var, h, i) ==
    IF i = 0 THEN [weighted_sum |-> 0, total_weight |-> 0]
    ELSE LET prev == SumsNullAsZero(fs, field, var, h, i - 1)
             data == fs[i][field]
             w == model_weights(fs[i].model_id)
         IN IF Contributes(data, var, h)
            THEN [weighted_sum |->
                      FAdd(prev.weighted_sum, FMul(data[var][h][1], w)),
                  total_weight |-> FAdd(prev.total_weight, w)]
            ELSE [prev EXCEPT !.total_weight = FAdd(prev.total_weight, w)]

RECURSIVE Sums(_, _, _, _, _)
Sums(fs, field, var, h, i) ==
    IF i = 0 THEN [weighted_sum |-> 0, total_weight |-> 0]
    ELSE LET prev == Sums(fs, field, var, h, i - 1)
             data == fs[i][field]
             w == model_weights(fs[i].model_id)
         IN IF Contributes(data, var, h)
            THEN [weighted_sum |->
                      FAdd(prev.weighted_sum, FMul(data[var][h][1], w)),
                  total_weight |-> FAdd(prev.total_weight, w)]
            ELSE prev

GapValueAlwaysNull(field) == None

\* lines 57-58 and 87-88: the output where no model contributed
GapValue(field) ==
    IF field = "enhanced_hourly_data" THEN Some(0) ELSE None

\* lines 55-58 and 85-88
BlendAt(fs, field, var, h) ==
    LET sums == Sums(fs, field, var, h, Len(fs))
    IN IF sums.total_weight > 0
       THEN Some(FDiv(sums.weighted_sum, sums.total_weight))
       ELSE GapValue(field)

compute_blendKeepsLatest(fs) ==
    IF Len(fs) = 0
    THEN [NoBlendOut EXCEPT !.called = TRUE, !.raised = TRUE]
    ELSE LET n == min_hours(fs)
             first == fs[1].times_utc
         IN [called |-> TRUE, raised |-> FALSE,
             times_utc |-> SubSeq(first, Len(first) - n + 1, Len(first)),
             hourly_data |->
                 [var \in DOMAIN fs[1].hourly_data |->
                     [h \in 1..n |-> BlendAt(fs, "hourly_data", var,
                                             Len(first) - n + h)]],
             enhanced_hourly_data |->
                 [var \in enhanced_vars |->
                     [h \in 1..n |-> BlendAt(fs, "enhanced_hourly_data",
                                             var, Len(first) - n + h)]]]

\* blend_service.compute_blend, called with the forecasts in the order of
\* the dict
compute_blend(fs) ==
    IF Len(fs) = 0
    THEN [NoBlendOut EXCEPT !.called = TRUE, !.raised = TRUE]
    ELSE LET n == min_hours(fs)
         IN [called |-> TRUE, raised |-> FALSE,
             times_utc |-> SubSeq(fs[1].times_utc, 1, n),
             hourly_data |->
                 [var \in DOMAIN fs[1].hourly_data |->
                     [h \in 1..n |-> BlendAt(fs, "hourly_data", var, h)]],
             enhanced_hourly_data |->
                 [var \in enhanced_vars |->
                     [h \in 1..n |-> BlendAt(fs, "enhanced_hourly_data",
                                             var, h)]]]

\* The arguments: up to MaxModels forecasts of different models in any
\* order, each with up to MaxLen hours.  A forecast carries one series,
\* either as the hourly variable temperature_2m or as the enhanced variable
\* enhanced_snowfall; the series is absent, as long as times_utc, or one
\* hour shorter, and each sample is None or a float.
BlendIds == {"hrrr", "gfs", "icon"}

Samples == {None, Some(0), Some(FloatOne), Some((FloatOne - 2) * FloatOne)}

SeriesChoices(n) ==
    {<<>>} \cup {<<s>> : s \in [1..n -> Samples]}
    \cup (IF n > 0 THEN {<<s>> : s \in [1..(n - 1) -> Samples]} ELSE {})

\* a dict with the series under the name var, or an empty dict
Dict(var, choice) == IF choice = <<>> THEN <<>> ELSE [v \in {var} |-> choice[1]]

ForecastData(m, n, field, choice) ==
    [model_id |-> m,
     times_utc |-> [i \in 1..n |-> i],
     hourly_data |-> IF field = "hourly_data"
                     THEN Dict("temperature_2m", choice) ELSE <<>>,
     enhanced_hourly_data |-> IF field = "enhanced_hourly_data"
                              THEN Dict("enhanced_snowfall", choice)
                              ELSE <<>>]

\* the models of a call, in the order of the dict
ModelOrders(k) ==
    {ids \in [1..k -> BlendIds] : \A i, j \in 1..k : i # j => ids[i] # ids[j]}

\* the number of hours and the series of one forecast
Shapes == UNION {{<<n, c>> : c \in SeriesChoices(n)} : n \in 0..MaxLen}

InitBlend ==
    /\ now = 0
    /\ resorts = {}
    /\ model_runs = <<>>
    /\ job_history = <<>>
    /\ forecasts = {}
    /\ pc = [w \in Workers |-> "idle"]
    /\ call = [w \in Workers |-> NoCall]
    /\ result = [w \in Workers |-> NULL]
    /\ exc = [w \in Workers |-> NoError]
    /\ calls = [w \in Workers |-> 0]
    /\ fb = [w \in Workers |-> NoFallback]
    /\ boot = NoBoot
    /\ blend_forecasts = {}
    /\ \E k \in 0..MaxModels, field \in {"hourly_data", "enhanced_hourly_data"} :
           \E ids \in ModelOrders(k), sh \in [1..k -> Shapes] :
               blend_in = [forecasts |->
                              [i \in 1..k |-> ForecastData(ids[i], sh[i][1],
                                                           field, sh[i][2])],
                           weights |-> <<>>]
    /\ blend_out = NoBlendOut
    /\ args = NoArgs
    /\ ret = NoRet

\* compute_blend is called with the arguments and returns or raises
ComputeBlend ==
    /\ ~ blend_out.called
    /\ blend_out' = compute_blend(blend_in.forecasts)
    /\ UNCHANGED <<now, db, pc, call, result, exc, calls, fb, boot,
                   blend_forecasts, blend_in, args, ret>>

NextBlend == ComputeBlend

SpecBlend == InitBlend /\ [][NextBlend]_vars

\* config.py 40-48: each weight of BLEND_WEIGHTS is read from the
\* environment; here hrrr, gfs or both are configured with weight 0.
\* blend_worker.py 64 passes the configured weights to compute_blend.
ConfiguredWeights ==
    {[m \in DOMAIN BLEND_WEIGHTS |->
         IF m \in zero THEN 0 ELSE BLEND_WEIGHTS[m]] :
        zero \in (SUBSET {"hrrr", "gfs"}) \ {{}}}

InitWeights ==
    /\ now = 0
    /\ resorts = {}
    /\ model_runs = <<>>
    /\ job_history = <<>>
    /\ forecasts = {}
    /\ pc = [w \in Workers |-> "idle"]
    /\ call = [w \in Workers |-> NoCall]
    /\ result = [w \in Workers |-> NULL]
    /\ exc = [w \in Workers |-> NoError]
    /\ calls = [w \in Workers |-> 0]
    /\ fb = [w \in Workers |-> NoFallback]
    /\ boot = NoBoot
    /\ blend_forecasts = {}
    /\ \E k \in 0..MaxModels, field \in {"hourly_data", "enhanced_hourly_data"} :
           \E ids \in ModelOrders(k), sh \in [1..k -> Shapes] :
               \E given \in ConfiguredWeights :
                   blend_in = [forecasts |->
                                  [i \in 1..k |->
                                      ForecastData(ids[i], sh[i][1],
                                                   field, sh[i][2])],
                               weights |-> given]
    /\ blend_out = NoBlendOut
    /\ args = NoArgs
    /\ ret = NoRet

NextWeights == ComputeBlend

SpecWeights == InitWeights /\ [][NextWeights]_vars

(* ------------------------ compute_ensemble_ranges ---------------------- *)
\* line 120: the default variables
range_variables == {"enhanced_snowfall", "temperature_2m", "precipitation"}

\* lines 134-142: the value of one forecast for var at hour h, looked up in
\* enhanced_hourly_data first and in hourly_data otherwise; None if it has
\* none
ValueAt(fdata, var, h) ==
    IF var \in DOMAIN fdata.enhanced_hourly_data
       /\ h <= Len(fdata.enhanced_hourly_data[var])
    THEN fdata.enhanced_hourly_data[var][h]
    ELSE IF var \in DOMAIN fdata.hourly_data
            /\ h <= Len(fdata.hourly_data[var])
         THEN fdata.hourly_data[var][h]
         ELSE None

\* lines 130-142: hour_values, the non-null values of the first i forecasts
RECURSIVE hour_values(_, _, _, _)
hour_values(fs, var, h, i) ==
    IF i = 0 THEN <<>>
    ELSE LET val == ValueAt(fs[i], var, h)
         IN IF val # None
            THEN Append(hour_values(fs, var, h, i - 1), val[1])
            ELSE hour_values(fs, var, h, i - 1)

\* line 145
sorted(values) == SortSeq(values, LAMBDA a, b : a < b)

Max(a, b) == IF a >= b THEN a ELSE b
Min(a, b) == IF a < b THEN a ELSE b

\* lines 147-148: int(n * 0.1) and int(n * 0.9) index the sorted values
\* from 0
p10_idx(n) == Max(0, n \div 10)
p90_idx(n) == Min(n - 1, (n * 9) \div 10)

RangeAtSwapsTheBounds(fs, var, h) ==
    LET values == hour_values(fs, var, h, Len(fs))
        sorted_vals == sorted(values)
        n == Len(sorted_vals)
    IN IF n > 0
       THEN [p10 |-> sorted_vals[p90_idx(n) + 1],
             p90 |-> sorted_vals[p10_idx(n) + 1]]
       ELSE [p10 |-> 0, p90 |-> 0]

\* lines 144-153
RangeAt(fs, var, h) ==
    LET values == hour_values(fs, var, h, Len(fs))
        sorted_vals == sorted(values)
        n == Len(sorted_vals)
    IN IF n > 0
       THEN [p10 |-> sorted_vals[p10_idx(n) + 1],
             p90 |-> sorted_vals[p90_idx(n) + 1]]
       ELSE [p10 |-> 0, p90 |-> 0]

\* blend_service.compute_ensemble_ranges, called with the values of the
\* dict in its order and the default variables
compute_ensemble_ranges(fs) ==
    IF Len(fs) = 0 THEN <<>>
    ELSE [var \in range_variables |->
             [p10 |-> [h \in 1..min_hours(fs) |-> RangeAt(fs, var, h).p10],
              p90 |-> [h \in 1..min_hours(fs) |-> RangeAt(fs, var, h).p90]]]

\* the keys of the dict: the ensemble models of blend_worker.py 25 first
RangeIds == <<"gefs", "ecmwf_ens", "hrrr", "gfs", "icon">>

\* The arguments: up to MaxModels forecasts, each with up to MaxLen
\* hours and one series, which is its temperature_2m (in hourly_data) or
\* its enhanced_snowfall (in enhanced_hourly_data)
InitRanges ==
    /\ now = 0
    /\ resorts = {}
    /\ model_runs = <<>>
    /\ job_history = <<>>
    /\ forecasts = {}
    /\ pc = [w \in Workers |-> "idle"]
    /\ call = [w \in Workers |-> NoCall]
    /\ result = [w \in Workers |-> NULL]
    /\ exc = [w \in Workers |-> NoError]
    /\ calls = [w \in Workers |-> 0]
    /\ fb = [w \in Workers |-> NoFallback]
    /\ boot = NoBoot
    /\ blend_forecasts = {}
    /\ blend_in = NoBlendIn
    /\ blend_out = NoBlendOut
    /\ \E k \in 0..MaxModels :
           \E sh \in [1..k -> Shapes \X {"hourly_data", "enhanced_hourly_data"}] :
               args = [fn |-> "compute_ensemble_ranges",
                       ensemble_forecasts |->
                           [i \in 1..k |->
                               ForecastData(RangeIds[i],
                                            sh[i][1][1], sh[i][2],
                                            sh[i][1][2])]]
    /\ ret = NoRet

\* compute_ensemble_ranges is called with the arguments and returns
ComputeRanges ==
    /\ args.fn = "compute_ensemble_ranges"
    /\ ~ ret.called
    /\ ret' = [called |-> TRUE,
               value |-> compute_ensemble_ranges(args.ensemble_forecasts)]
    /\ UNCHANGED <<now, db, pc, call, result, exc, calls, fb, boot,
                   blend_forecasts, blend_in, blend_out, args>>

NextRanges == ComputeRanges

SpecRanges == InitRanges /\ [][NextRanges]_vars

(* --------------------------- compute_all_blends ------------------------ *)
\* blend_worker.py 107-108: the pairs in the order of the two loops
RECURSIVE SweepPairs(_)
SweepPairs(n) ==
    IF n = 0 THEN <<>>
    ELSE SweepPairs(n - 1) \o <<<<n, "summit">>, <<n, "base">>>>

\* blend_worker.py 124
BlendsFailed(errors) == ToString(errors) \o " blends failed"

\* the row that upsert_blend_forecast leaves in the session for a pair
BlendRow(fs, pair) ==
    [resort_slug |-> pair[1], elevation_type |-> pair[2],
     source_model_runs |-> source_runs(fs, pair[1], pair[2])]

\* blend_worker.py 92-105: the job is recorded and the locations are read
SweepStart ==
    /\ args = NoArgs
    /\ job_history' = Append(job_history,
                             JobHistory("blend", "", "started", now, NULL))
    /\ args' = [fn |-> "compute_all_blends",
                job_id |-> Len(job_history) + 1,
                start_time |-> now,
                pairs |-> SelectSeq(SweepPairs(NumResorts),
                                    LAMBDA q : q[1] \in resorts),
                attempted |-> <<>>,
                written |-> {},
                count |-> 0,
                errors |-> 0]
    /\ UNCHANGED <<now, resorts, model_runs, forecasts, pc, call, result,
                   exc, calls, fb, boot, blend_forecasts, blend_in,
                   blend_out, ret>>

SweepPairStopsAtAnException(raises) ==
    /\ args.fn = "compute_all_blends"
    /\ ~ ret.called
    /\ Len(args.attempted) < Len(args.pairs)
    /\ LET pair == args.pairs[Len(args.attempted) + 1]
           found == source_runs(forecasts, pair[1], pair[2]) # {}
       IN /\ raises => found
          /\ args' = [args EXCEPT
                 !.attempted = IF raises THEN args.pairs
                               ELSE Append(@, pair),
                 !.written = IF found /\ ~ raises
                             THEN @ \cup {BlendRow(forecasts, pair)}
                             ELSE @,
                 !.count = IF found /\ ~ raises THEN @ + 1 ELSE @,
                 !.errors = IF raises THEN @ + 1 ELSE @]
    /\ UNCHANGED <<now, db, pc, call, result, exc, calls, fb, boot,
                   blend_forecasts, blend_in, blend_out, ret>>

\* blend_worker.py 107-114 and 43-80: compute_resort_blend is called for the
\* next pair.  Without a forecast of any model it returns False.  With
\* forecasts it computes the blend and leaves its row in the session, or an
\* exception of the computation ends it before the row is written
\* (raises); the exception is caught and counted, and the session stays
\* usable.
SweepPair(raises) ==
    /\ args.fn = "compute_all_blends"
    /\ ~ ret.called
    /\ Len(args.attempted) < Len(args.pairs)
    /\ LET pair == args.pairs[Len(args.attempted) + 1]
           found == source_runs(forecasts, pair[1], pair[2]) # {}
       IN /\ raises => found
          /\ args' = [args EXCEPT
                 !.attempted = Append(@, pair),
                 !.written = IF found /\ ~ raises
                             THEN @ \cup {BlendRow(forecasts, pair)}
                             ELSE @,
                 !.count = IF found /\ ~ raises THEN @ + 1 ELSE @,
                 !.errors = IF raises THEN @ + 1 ELSE @]
    /\ UNCHANGED <<now, db, pc, call, result, exc, calls, fb, boot,
                   blend_forecasts, blend_in, blend_out, ret>>

\* blend_worker.py 116-128: the rows are committed, replacing the rows of
\* the same keys, the job is completed, and the count is returned
SweepFinish ==
    /\ args.fn = "compute_all_blends"
    /\ ~ ret.called
    /\ Len(args.attempted) = Len(args.pairs)
    /\ blend_forecasts' =
           {b \in blend_forecasts :
               \A n \in args.written :
                  ~ (/\ n.resort_slug = b.resort_slug
                     /\ n.elevation_type = b.elevation_type)}
           \cup args.written
    /\ job_history' = [job_history EXCEPT
           ![args.job_id].status = "completed",
           ![args.job_id].completed_at = now,
           ![args.job_id].duration_seconds = now - args.start_time,
           ![args.job_id].resorts_processed = args.count,
           ![args.job_id].error =
               IF args.errors > 0 THEN BlendsFailed(args.errors) ELSE @]
    /\ ret' = [called |-> TRUE, value |-> args.count]
    /\ UNCHANGED <<now, resorts, model_runs, forecasts, pc, call, result,
                   exc, calls, fb, boot, blend_in, blend_out, args>>

\* The store when a sweep starts: the locations, the forecasts of gfs and
\* hrrr of any set of locations and elevations, and the blends of an
\* earlier sweep or none.
OlderBlends ==
    {[resort_slug |-> q[1], elevation_type |-> q[2],
      source_model_runs |-> {<<"gfs", 0>>}] :
        q \in AllResorts \X ElevationTypes}

InitSweep ==
    /\ now = 0
    /\ resorts = AllResorts
    /\ model_runs = <<>>
    /\ job_history = <<>>
    /\ \E with_gfs \in SUBSET (AllResorts \X ElevationTypes) :
           \E with_hrrr \in {{}, with_gfs} :
               forecasts =
                   {Forecast(q[1], "gfs", q[2], 1, MaxHours) :
                       q \in with_gfs}
                   \cup {Forecast(q[1], "hrrr", q[2], 1, MaxHours) :
                            q \in with_hrrr}
    /\ pc = [w \in Workers |-> "idle"]
    /\ call = [w \in Workers |-> NoCall]
    /\ result = [w \in Workers |-> NULL]
    /\ exc = [w \in Workers |-> NoError]
    /\ calls = [w \in Workers |-> 0]
    /\ fb = [w \in Workers |-> NoFallback]
    /\ boot = NoBoot
    /\ blend_forecasts \in {{}, OlderBlends}
    /\ blend_in = NoBlendIn
    /\ blend_out = NoBlendOut
    /\ args = NoArgs
    /\ ret = NoRet

NextSweep ==
    \/ SweepStart
    \/ \E raises \in BOOLEAN : SweepPair(raises)
    \/ SweepFinish

SpecSweep == InitSweep /\ [][NextSweep]_vars

(* ------------------------------ de_accumulate -------------------------- *)
FSub(x, y) == FAdd(x, -y)

de_accumulateKeepsTheTotals(values) == values

\* grib2_parser.py 24-38: result and prev after the first i values
RECURSIVE DeAccumulated(_, _)
DeAccumulated(values, i) ==
    IF i = 0 THEN [result |-> <<>>, prev |-> 0]
    ELSE LET before == DeAccumulated(values, i - 1)
             val == values[i]
         IN IF val = None
            THEN [before EXCEPT !.result = Append(@, None)]
            ELSE IF i = 1
            THEN [result |-> Append(before.result, Some(Max(0, val[1]))),
                  prev |-> val[1]]
            ELSE [result |-> Append(before.result,
                                    Some(Max(0, FSub(val[1], before.prev)))),
                  prev |-> val[1]]

\* grib2_parser.de_accumulate
de_accumulate(values) == DeAccumulated(values, Len(values)).result

\* The arguments: up to MaxLen + 1 accumulated values, each None or a
\* float; the largest one less the smallest positive one is not a float.
Accumulated ==
    {None, Some(-FloatOne), Some(0), Some(1), Some(FloatOne),
     Some(5 * Pow2(MantissaBits - 1))}

InitDeAccumulate ==
    /\ now = 0
    /\ resorts = {}
    /\ model_runs = <<>>
    /\ job_history = <<>>
    /\ forecasts = {}
    /\ pc = [w \in Workers |-> "idle"]
    /\ call = [w \in Workers |-> NoCall]
    /\ result = [w \in Workers |-> NULL]
    /\ exc = [w \in Workers |-> NoError]
    /\ calls = [w \in Workers |-> 0]
    /\ fb = [w \in Workers |-> NoFallback]
    /\ boot = NoBoot
    /\ blend_forecasts = {}
    /\ blend_in = NoBlendIn
    /\ blend_out = NoBlendOut
    /\ \E n \in 0..(MaxLen + 1) :
           \E values \in [1..n -> Accumulated] :
               args = [fn |-> "de_accumulate", values |-> values]
    /\ ret = NoRet

\* de_accumulate is called with the arguments and returns
DeAccumulate ==
    /\ args.fn = "de_accumulate"
    /\ ~ ret.called
    /\ ret' = [called |-> TRUE, value |-> de_accumulate(args.values)]
    /\ UNCHANGED <<now, db, pc, call, result, exc, calls, fb, boot,
                   blend_forecasts, blend_in, blend_out, args>>

NextDeAccumulate == DeAccumulate

SpecDeAccumulate == InitDeAccumulate /\ [][NextDeAccumulate]_vars

(* ---------------------------- build_hourly_data ----------------------- *)
\* math.sqrt of a float: the float nearest to the square root
FSqrt(x) ==
    LET n == x * FloatOne
        r == CHOOSE q \in 0..(n + 1) : q * q <= n /\ n < (q + 1) * (q + 1)
        step == Spacing(r, 1, 1)
        lo == (r \div step) * step
        mid2 == 2 * lo + step
    IN IF 4 * n < mid2 * mid2 THEN lo
       ELSE IF 4 * n > mid2 * mid2 THEN lo + step
       ELSE IF (lo \div step) % 2 = 0 THEN lo ELSE lo + step

\* the float of a decimal literal num / den
Literal(num, den) == Round(num * FloatOne, den)

\* None stays None, a value is converted
MapSome(values, Op(_)) ==
    [h \in 1..Len(values) |->
        IF values[h] = None THEN None ELSE Some(Op(values[h][1]))]

\* grib2_parser.compute_wind_speed, lines 58-67 (both lists have the length
\* of extracted_points)
compute_wind_speed(u_values, v_values) ==
    [h \in 1..Len(u_values) |->
        IF u_values[h] = None \/ v_values[h] = None THEN None
        ELSE LET u == u_values[h][1]
                 v == v_values[h][1]
                 speed_ms == FSqrt(FAdd(FMul(u, u), FMul(v, v)))
             IN Some(FMul(speed_ms, Literal(36, 10)))]

\* grib2_parser.estimate_wind_gusts; gust_values is <<>> when not given,
\* <<g>> with the list g otherwise
estimate_wind_gusts(wind_speed_kmh, gust_values, gust_factor) ==
    IF gust_values # <<>> /\ Len(gust_values[1]) = Len(wind_speed_kmh)
    THEN gust_values[1]
    ELSE MapSome(wind_speed_kmh, LAMBDA speed : FMul(speed, gust_factor))

ECMWF == {"ifs", "aifs", "ecmwf_ens"}

\* grib2_parser.build_hourly_data
build_hourly_data(extracted_points, model_id) ==
    IF Len(extracted_points) = 0
    THEN [hourly_data |-> <<>>, hourly_units |-> <<>>]
    ELSE
    LET Column(key) == [h \in 1..Len(extracted_points) |->
                           extracted_points[h][key]]
        is_ecmwf == model_id \in ECMWF
        Meters(values) ==
            IF is_ecmwf
            THEN MapSome(values, LAMBDA x : FMul(x, 1000 * FloatOne))
            ELSE values
        precip_hourly == de_accumulate(Meters(Column("precipitation")))
        snow_hourly == de_accumulate(Meters(Column("snowfall")))
        wind_speed == compute_wind_speed(Column("wind_u"), Column("wind_v"))
        raw_gusts == Column("wind_gusts")
        gusts ==
            IF is_ecmwf /\ \A h \in 1..Len(raw_gusts) : raw_gusts[h] = None
            THEN estimate_wind_gusts(wind_speed, <<>>, Literal(15, 10))
            ELSE estimate_wind_gusts(
                     wind_speed,
                     <<MapSome(raw_gusts,
                               LAMBDA g : FMul(g, Literal(36, 10)))>>,
                     Literal(15, 10))
    IN [hourly_data |->
            [temperature_2m |->
                 MapSome(Column("temperature"),
                         LAMBDA t : FSub(t, Literal(27315, 100))),
             wind_speed_10m |-> wind_speed,
             wind_gusts_10m |-> gusts,
             snowfall |->
                 MapSome(snow_hourly, LAMBDA x : FMul(x, 100 * FloatOne)),
             precipitation |-> precip_hourly,
             freezing_level_height |-> Column("freezing_level")],
        hourly_units |->
            [temperature_2m |-> "C", wind_speed_10m |-> "kmh",
             wind_gusts_10m |-> "kmh", snowfall |-> "cm",
             precipitation |-> "mm", freezing_level_height |-> "m"]]

\* The arguments: a model and up to MaxLen extracted points.  Each wind
\* component and the gust are None, 0 or 4 m/s; the other variables of a
\* point are all None or all 1.
Point(u, v, g, x) ==
    [temperature |-> x, precipitation |-> x, snowfall |-> x,
     wind_u |-> u, wind_v |-> v, wind_gusts |-> g, freezing_level |-> x]

Winds == {None, Some(0), Some(4 * FloatOne)}

Points ==
    {Point(u, v, g, x) : u \in Winds, v \in Winds, g \in Winds,
                         x \in {None, Some(FloatOne)}}

InitHourly ==
    /\ now = 0
    /\ resorts = {}
    /\ model_runs = <<>>
    /\ job_history = <<>>
    /\ forecasts = {}
    /\ pc = [w \in Workers |-> "idle"]
    /\ call = [w \in Workers |-> NoCall]
    /\ result = [w \in Workers |-> NULL]
    /\ exc = [w \in Workers |-> NoError]
    /\ calls = [w \in Workers |-> 0]
    /\ fb = [w \in Workers |-> NoFallback]
    /\ boot = NoBoot
    /\ blend_forecasts = {}
    /\ blend_in = NoBlendIn
    /\ blend_out = NoBlendOut
    /\ \E n \in 0..MaxLen, model_id \in {"gfs", "nbm", "ifs"} :
           \E extracted_points \in [1..n -> Points] :
               args = [fn |-> "build_hourly_data",
                       extracted_points |-> extracted_points,
                       model_id |-> model_id]
    /\ ret = NoRet

\* build_hourly_data is called with the arguments and returns
BuildHourly ==
    /\ args.fn = "build_hourly_data"
    /\ ~ ret.called
    /\ ret' = [called |-> TRUE,
               value |-> build_hourly_data(args.extracted_points,
                                           args.model_id)]
    /\ UNCHANGED <<now, db, pc, call, result, exc, calls, fb, boot,
                   blend_forecasts, blend_in, blend_out, args>>

NextHourly == BuildHourly

SpecHourly == InitHourly /\ [][NextHourly]_vars

(* -------------------------- extract_all_hours_batch -------------------- *)
\* herbie_client.py 63: FASTHERBIE_CHUNK_SIZE is 48; the model works with
\* chunks of ChunkSize offsets.
FASTHERBIE_CHUNK_SIZE == ChunkSize

\* herbie_client.py 434: the variables searched for
var_search == {"temperature", "precipitation"}

\* What the data source holds for a run: grib is the set of offsets whose
\* file exists, and load[var][fxx] says what loading var at offset fxx
\* gives: "ok" a value, "nan" a field without a value at the point,
\* "keyerror" a KeyError (no source link), "error" any other exception.
LoadStates == {"ok", "nan", "keyerror", "error"}

GribValue(var, fxx) == (IF var = "temperature" THEN 10 ELSE 0) + fxx + 1

\* lines 444 and 448-453: fh.xarray(search_str) over the available offsets
\* returns a dataset, or raises what the first offset that fails raises
Batch(var, available_fxx, load) ==
    LET bad == SelectSeq(available_fxx,
                         LAMBDA f : load[var][f] \in {"keyerror", "error"})
    IN IF bad = <<>> THEN "dataset"
       ELSE IF load[var][bad[1]] = "keyerror" THEN "KeyError"
       ELSE "Exception"

\* lines 461-481: hourly, the offsets whose own h_obj.xarray succeeded
PerHour(var, available_fxx, load) ==
    {available_fxx[k] : k \in {j \in 1..Len(available_fxx) :
        load[var][available_fxx[j]] \in {"ok", "nan"}}}

PointValueNoFallback(var, fxx, available_fxx, load) ==
    IF Batch(var, available_fxx, load) = "dataset"
       /\ load[var][fxx] = "ok"
    THEN Some(GribValue(var, fxx))
    ELSE None

\* lines 514-557: the value of var at offset fxx for a point, None when
\* the variable was not loaded for that offset or has no value there
PointValue(var, fxx, available_fxx, load) ==
    LET batch == Batch(var, available_fxx, load)
        picked == \/ batch = "dataset"
                  \/ /\ batch = "Exception"
                     /\ fxx \in PerHour(var, available_fxx, load)
    IN IF picked /\ load[var][fxx] = "ok"
       THEN Some(GribValue(var, fxx))
       ELSE None

\* HerbieClient._extract_all_hours_single for one point
_extract_all_hours_single(fxx_range, grib, load) ==
    LET available_fxx == SelectSeq(fxx_range, LAMBDA f : f \in grib)
    IN [available |-> available_fxx,
        results |->
            [fxx \in {available_fxx[k] : k \in 1..Len(available_fxx)} |->
                <<[var \in var_search |->
                      PointValue(var, fxx, available_fxx, load)]>>]]

\* dict.update
Update(d, e) ==
    [k \in DOMAIN d \cup DOMAIN e |-> IF k \in DOMAIN e THEN e[k] ELSE d[k]]

\* The arguments and the data source: a request of up to ChunkSize + 2
\* offsets in increasing order (models.get_fxx_range), any set of files,
\* and any way of loading precipitation; temperature loads everywhere.
InitExtract ==
    /\ now = 0
    /\ resorts = {}
    /\ model_runs = <<>>
    /\ job_history = <<>>
    /\ forecasts = {}
    /\ pc = [w \in Workers |-> "idle"]
    /\ call = [w \in Workers |-> NoCall]
    /\ result = [w \in Workers |-> NULL]
    /\ exc = [w \in Workers |-> NoError]
    /\ calls = [w \in Workers |-> 0]
    /\ fb = [w \in Workers |-> NoFallback]
    /\ boot = NoBoot
    /\ blend_forecasts = {}
    /\ blend_in = NoBlendIn
    /\ blend_out = NoBlendOut
    /\ \E n \in 0..(ChunkSize + 2) :
           \E grib \in SUBSET (0..(n - 1)),
              loads \in [0..(n - 1) -> LoadStates] :
               args = [fn |-> "extract_all_hours_batch",
                       fxx_range |-> [k \in 1..n |-> k - 1],
                       grib |-> grib,
                       load |-> [var \in var_search |->
                                    IF var = "temperature"
                                    THEN [f \in 0..(n - 1) |-> "ok"]
                                    ELSE loads],
                       chunks |-> <<>>,
                       chunk_start |-> 0,
                       all_available |-> <<>>,
                       all_results |-> <<>>]
    /\ ret = NoRet

\* herbie_client.py 314-321: a request of at most FASTHERBIE_CHUNK_SIZE
\* offsets is extracted in one call
ExtractSingle ==
    /\ args.fn = "extract_all_hours_batch"
    /\ ~ ret.called
    /\ Len(args.fxx_range) <= FASTHERBIE_CHUNK_SIZE
    /\ LET got == _extract_all_hours_single(args.fxx_range, args.grib,
                                            args.load)
       IN /\ ret' = [called |-> TRUE, available |-> got.available,
                     results |-> got.results]
          /\ args' = [args EXCEPT !.chunks = <<args.fxx_range>>]
    /\ UNCHANGED <<now, db, pc, call, result, exc, calls, fb, boot,
                   blend_forecasts, blend_in, blend_out>>

ExtractChunkForgetsTheEarlier ==
    /\ args.fn = "extract_all_hours_batch"
    /\ ~ ret.called
    /\ Len(args.fxx_range) > FASTHERBIE_CHUNK_SIZE
    /\ args.chunk_start < Len(args.fxx_range)
    /\ LET chunk == SubSeq(args.fxx_range, args.chunk_start + 1,
                           Min(args.chunk_start + FASTHERBIE_CHUNK_SIZE,
                               Len(args.fxx_range)))
           got == _extract_all_hours_single(chunk, args.grib, args.load)
       IN args' = [args EXCEPT
              !.chunks = Append(@, chunk),
              !.chunk_start = @ + FASTHERBIE_CHUNK_SIZE,
              !.all_available = got.available,
              !.all_results = got.results]
    /\ UNCHANGED <<now, db, pc, call, result, exc, calls, fb, boot,
                   blend_forecasts, blend_in, blend_out, ret>>

\* herbie_client.py 335-345: the next chunk is extracted and its results
\* are added
ExtractChunk ==
    /\ args.fn = "extract_all_hours_batch"
    /\ ~ ret.called
    /\ Len(args.fxx_range) > FASTHERBIE_CHUNK_SIZE
    /\ args.chunk_start < Len(args.fxx_range)
    /\ LET chunk == SubSeq(args.fxx_range, args.chunk_start + 1,
                           Min(args.chunk_start + FASTHERBIE_CHUNK_SIZE,
                               Len(args.fxx_range)))
           got == _extract_all_hours_single(chunk, args.grib, args.load)
       IN args' = [args EXCEPT
              !.chunks = Append(@, chunk),
              !.chunk_start = @ + FASTHERBIE_CHUNK_SIZE,
              !.all_available = @ \o got.available,
              !.all_results = Update(@, got.results)]
    /\ UNCHANGED <<now, db, pc, call, result, exc, calls, fb, boot,
                   blend_forecasts, blend_in, blend_out, ret>>

\* herbie_client.py 347
ExtractReturn ==
    /\ args.fn = "extract_all_hours_batch"
    /\ ~ ret.called
    /\ Len(args.fxx_range) > FASTHERBIE_CHUNK_SIZE
    /\ args.chunk_start >= Len(args.fxx_range)
    /\ ret' = [called |-> TRUE, available |-> args.all_available,
               results |-> args.all_results]
    /\ UNCHANGED <<now, db, pc, call, result, exc, calls, fb, boot,
                   blend_forecasts, blend_in, blend_out, args>>

NextExtract == ExtractSingle \/ ExtractChunk \/ ExtractReturn

SpecExtract == InitExtract /\ [][NextExtract]_vars

(* ============================== claims ================================= *)
\* w begins a call in this step
BeginStep(w) == calls'[w] = calls[w] + 1

\* the committed row of the run that w's call is for, as the call finds it
FoundId(w) == FindModelRun(model_runs, call'[w].model_id, call'[w].run_dt)

NoWrite ==
    /\ model_runs' = model_runs
    /\ job_history' = job_history
    /\ forecasts' = forecasts

SameRun(v, w) ==
    /\ call[v].model_id = call[w].model_id
    /\ call[v].run_dt = call[w].run_dt

\* C1: two callers never run extraction for the same run under claims that
\* were made within the stale timeout of each other (the timeout is at
\* least STALE_LOCK_FALLBACK), that is, a second caller starts extraction
\* only for a run whose claim had gone stale.
C1_SingleExtractorWhileFresh ==
    \A v, w \in Workers :
        (/\ v # w
         /\ pc[v] = "extracting" /\ pc[w] = "extracting"
         /\ SameRun(v, w))
        => Abs(call[v].started_at - call[w].started_at) > STALE_LOCK_FALLBACK

\* C2: a call for a run whose row is completed returns 0 at once, does not
\* go on to extraction, and writes nothing: no ModelRun field changes, no
\* JobHistory row is created, no forecast is written.  Every call does so.
C2_CompletedRunIsNoOp ==
    [][\A w \in Workers :
          (/\ BeginStep(w)
           /\ FoundId(w) # 0
           /\ model_runs[FoundId(w)].status = "completed")
          => (/\ pc'[w] = "done"
              /\ result'[w] = 0
              /\ exc'[w] = NoError
              /\ NoWrite)]_vars

\* one caller has completed the run and then called again
C2_Witness ==
    \E w \in Workers :
        /\ calls[w] = 2 /\ \A v \in Workers \ {w} : calls[v] = 0
        /\ pc[w] = "done" /\ result[w] = 0
        /\ Len(model_runs) = 1 /\ model_runs[1].status = "completed"
        /\ \E j \in 1..Len(job_history) : job_history[j].status = "completed"

\* C3: a call for a run in processing whose elapsed time since started_at
\* is at most the stale timeout returns 0 and writes nothing.
C3_FreshProcessingIsSkipped ==
    [][\A w \in Workers :
          (/\ BeginStep(w)
           /\ FoundId(w) # 0
           /\ model_runs[FoundId(w)].status = "processing"
           /\ model_runs[FoundId(w)].started_at # NULL
           /\ LET to == get_stale_timeout(job_history, call'[w].model_id)
              IN (now - model_runs[FoundId(w)].started_at) * to.den <= to.num)
          => (/\ pc'[w] = "done"
              /\ result'[w] = 0
              /\ exc'[w] = NoError
              /\ NoWrite)]_vars

\* a caller was skipped while the claim of another, still extracting, was
\* exactly as old as the timeout
C3_Witness ==
    \E v, w \in Workers :
        /\ v # w
        /\ pc[v] = "extracting" /\ call[v].started_at = 0
        /\ now = STALE_LOCK_FALLBACK
        /\ pc[w] = "done" /\ result[w] = 0 /\ calls[w] = 1
        /\ model_runs[call[v].mr_id].status = "processing"

\* C4: a call for a run in processing whose elapsed time exceeds the stale
\* timeout, or whose started_at is unset, does not return: its next commit
\* marks the row failed with the stale-lock-reset error, its next commit
\* after that claims the row again (processing, started_at = now), it goes
\* on to extraction, and when extraction succeeds it writes completed and
\* returns the count.
C4_StaleRunIsResetAndReprocessed ==
    [][\A w \in Workers :
          /\ (/\ BeginStep(w)
              /\ FoundId(w) # 0
              /\ model_runs[FoundId(w)].status = "processing"
              /\ \/ model_runs[FoundId(w)].started_at = NULL
                 \/ LET to == get_stale_timeout(job_history, call'[w].model_id)
                    IN (now - model_runs[FoundId(w)].started_at) * to.den
                           > to.num)
             => (/\ pc'[w] = "reset"
                 /\ call'[w].mr_id = FoundId(w)
                 /\ NoWrite)
          /\ (pc[w] = "reset" /\ pc'[w] # "reset")
             => (/\ pc'[w] = "claim"
                 /\ model_runs'[call[w].mr_id].status = "failed"
                 /\ model_runs'[call[w].mr_id].error \in
                        {ErrStaleNoStart, ErrStaleElapsed(call[w].elapsed)}
                 /\ call'[w] = call[w])
          /\ (pc[w] = "claim" /\ call[w].mr_id # 0 /\ pc'[w] # "claim")
             => (/\ pc'[w] = "resorts"
                 /\ model_runs'[call[w].mr_id].status = "processing"
                 /\ model_runs'[call[w].mr_id].started_at = now)
          /\ (pc[w] = "resorts" /\ resorts # {} /\ pc'[w] # "resorts")
             => pc'[w] = "extracting"
          /\ (/\ pc[w] = "persist" /\ pc'[w] # "persist"
              /\ ~ call[w].raised /\ call[w].hours >= 1
              /\ \E s \in AllResorts : call[w].loc[s] = "valid")
             => (/\ pc'[w] = "jobdone"
                 /\ model_runs'[call[w].mr_id].status = "completed")
          /\ (pc[w] = "jobdone" /\ pc'[w] # "jobdone")
             => (pc'[w] = "done" /\ result'[w] >= 1)]_vars

\* a run was reset as stale after 2 ticks and then completed: the reset
\* text is still in its error column
C4_Witness ==
    \E i \in 1..Len(model_runs) :
        /\ model_runs[i].status = "completed"
        /\ model_runs[i].error = ErrStaleElapsed(2 * TickSeconds)
        /\ \E w \in Workers : pc[w] = "done" /\ result[w] >= 1

\* the same for a run whose started_at was unset
C4_WitnessNoStart ==
    \E i \in 1..Len(model_runs) :
        /\ model_runs[i].status = "completed"
        /\ model_runs[i].error = ErrStaleNoStart

\* the completed model_run rows of model m among the first n rows, counted
\* and summed row by row
RECURSIVE CompletedCount(_, _, _)
CompletedCount(jobs, m, n) ==
    IF n = 0 THEN 0
    ELSE CompletedCount(jobs, m, n - 1)
         + (IF /\ jobs[n].job_type = "model_run" /\ jobs[n].model_id = m
               /\ jobs[n].status = "completed" THEN 1 ELSE 0)

RECURSIVE CompletedSeconds(_, _, _)
CompletedSeconds(jobs, m, n) ==
    IF n = 0 THEN 0
    ELSE CompletedSeconds(jobs, m, n - 1)
         + (IF /\ jobs[n].job_type = "model_run" /\ jobs[n].model_id = m
               /\ jobs[n].status = "completed"
            THEN jobs[n].duration_seconds ELSE 0)

\* C5: for every model, get_stale_timeout is max(2 x the average duration of
\* the model's completed model_run rows, 2500), and 2500 when the model has
\* no such row; nothing else in the table enters the result.  With cnt rows
\* summing to sum seconds the timeout num/den satisfies
\* num * cnt = max(2 * sum, 2500 * cnt) * den.
C5_StaleTimeoutIsTwiceAverage ==
    \A m \in HistModels :
        LET to == get_stale_timeout(job_history, m)
            cnt == CompletedCount(job_history, m, Len(job_history))
            sum == CompletedSeconds(job_history, m, Len(job_history))
        IN /\ to.den > 0
           /\ IF cnt = 0
              THEN to.num = STALE_LOCK_FALLBACK * to.den
              ELSE to.num * cnt
                       = Max(2 * sum, STALE_LOCK_FALLBACK * cnt) * to.den

\* a caller was skipped although the claim was older than the fallback,
\* because the history of its model (next to rows that do not count) gives a
\* longer timeout
C5_Witness ==
    /\ \E w \in Workers : pc[w] = "done" /\ result[w] = 0
    /\ now - model_runs[1].started_at > STALE_LOCK_FALLBACK
    /\ model_runs[1].status = "processing"
    /\ get_stale_timeout(job_history, "gfs").num
           > STALE_LOCK_FALLBACK * get_stale_timeout(job_history, "gfs").den
    /\ \E j \in 1..Len(job_history) :
           ~ HistoryFilter(job_history[j], "gfs")

RaisesInPersist(w) ==
    \/ call[w].raised
    \/ call[w].hours = 0
    \/ \E s \in DOMAIN call[w].loc : call[w].loc[s] = "error"
    \/ \A s \in DOMAIN call[w].loc : call[w].loc[s] # "valid"

FailedWith(w, text) ==
    /\ pc'[w] = "raised"
    /\ exc'[w] = text
    /\ model_runs'[call[w].mr_id].status = "failed"
    /\ model_runs'[call[w].mr_id].error = text
    /\ job_history'[call[w].job_id].status = "failed"
    /\ job_history'[call[w].job_id].error = text

\* C7 as stated: whenever an exception is raised after the claim, during
\* location lookup, extraction or persistence, the call exits by raising it
\* and leaves both rows failed with its text.
C7_AnyExceptionFailsTheRun ==
    [][\A w \in Workers :
          /\ (pc[w] = "resorts" /\ pc'[w] # "resorts" /\ resorts = {})
             => FailedWith(w, exc'[w])
          /\ (pc[w] = "persist" /\ pc'[w] # "persist" /\ RaisesInPersist(w))
             => FailedWith(w, exc'[w])]_vars

\* C7 amended: an exception that leaves the per-location handling (no
\* locations, extraction raising, no forecast hours, no location with valid
\* data) makes the call exit by raising it, with the ModelRun row and the
\* call's JobHistory row failed and carrying its text; an exception raised
\* while one location's forecast is built or persisted is absorbed and the
\* location is not counted.  A call that claimed never exits with its last
\* write to the run being processing: it wrote failed, or completed.
C7_EscapingExceptionFailsTheRun ==
    [][\A w \in Workers :
          /\ (pc[w] = "resorts" /\ pc'[w] # "resorts" /\ resorts = {})
             => FailedWith(w, ErrNoResorts)
          /\ (pc[w] = "persist" /\ pc'[w] # "persist")
             => IF call[w].raised
                THEN FailedWith(w, ErrDownload)
                ELSE IF call[w].hours = 0
                THEN FailedWith(w, ErrNoHours(call[w].model_id))
                ELSE IF \A s \in AllResorts : call[w].loc[s] # "valid"
                THEN FailedWith(w, ErrAllNull(call[w].model_id))
                ELSE /\ pc'[w] = "jobdone"
                     /\ exc'[w] = NoError
                     /\ model_runs'[call[w].mr_id].status = "completed"
                     /\ model_runs'[call[w].mr_id].resorts_processed
                            = Cardinality({s \in AllResorts :
                                              call[w].loc[s] = "valid"})
          /\ (pc[w] \in {"resorts", "extracting", "persist"}
              /\ pc'[w] \in {"raised", "jobdone"})
             => model_runs'[call[w].mr_id].status \in {"failed", "completed"}
          /\ (pc[w] = "jobdone" /\ pc'[w] # "jobdone")
             => (/\ pc'[w] = "done"
                 /\ job_history'[call[w].job_id].status = "completed")]_vars

\* extraction raised and the call has exited with both rows failed
C7_Witness ==
    \E w \in Workers :
        /\ pc[w] = "raised" /\ exc[w] = ErrDownload
        /\ Len(model_runs) = 1
        /\ model_runs[1].status = "failed" /\ model_runs[1].error = ErrDownload
        /\ \E j \in 1..Len(job_history) :
               /\ job_history[j].status = "failed"
               /\ job_history[j].error = ErrDownload

\* C8: when extraction returns no forecast hour the call raises the 'No
\* forecast hours' error, writes no forecast, and leaves the ModelRun row and
\* its JobHistory row failed.
C8_NoHoursFailsTheRun ==
    [][\A w \in Workers :
          (/\ pc[w] = "persist" /\ pc'[w] # "persist"
           /\ ~ call[w].raised /\ call[w].hours = 0)
          => (/\ pc'[w] = "raised"
              /\ exc'[w] = ErrNoHours(call[w].model_id)
              /\ forecasts' = forecasts
              /\ model_runs'[call[w].mr_id].status = "failed"
              /\ job_history'[call[w].job_id].status = "failed")]_vars

\* a call has raised the 'No forecast hours' error on a run it had inserted
C8_Witness ==
    \E w \in Workers :
        /\ pc[w] = "raised" /\ exc[w] = ErrNoHours("gfs")
        /\ forecasts = {}
        /\ Len(model_runs) = 1 /\ model_runs[1].status = "failed"
        /\ Len(job_history) = 1 /\ job_history[1].status = "failed"

ValidCount(w) == Cardinality({s \in AllResorts : call[w].loc[s] = "valid"})

\* C9: when at least one hour was extracted, the call fails with the 'All
\* forecast data null' error exactly when no location has valid data;
\* otherwise the run is completed, only the locations with valid data get
\* forecast rows (summit and base), and ModelRun.resorts_processed, the
\* return value and JobHistory.resorts_processed are their number.
C9_CompletedCountsValidLocations ==
    [][\A w \in Workers :
          /\ (/\ pc[w] = "persist" /\ pc'[w] # "persist"
              /\ ~ call[w].raised /\ call[w].hours >= 1)
             => /\ (pc'[w] = "raised") <=> (ValidCount(w) = 0)
                /\ (pc'[w] = "raised")
                   => (exc'[w] = ErrAllNull(call[w].model_id)
                       /\ forecasts' = forecasts)
                /\ ValidCount(w) > 0
                   => /\ pc'[w] = "jobdone"
                      /\ model_runs'[call[w].mr_id].status = "completed"
                      /\ model_runs'[call[w].mr_id].resorts_processed
                             = ValidCount(w)
                      /\ \A s \in AllResorts :
                           IF call[w].loc[s] = "valid"
                           THEN \A e \in ElevationTypes :
                                  Forecast(s, call[w].model_id, e,
                                           call[w].run_dt, call[w].hours)
                                      \in forecasts'
                           ELSE {f \in forecasts' : f.resort_slug = s}
                                  = {f \in forecasts : f.resort_slug = s}
          /\ (pc[w] = "jobdone" /\ pc'[w] # "jobdone")
             => /\ pc'[w] = "done"
                /\ result'[w] = ValidCount(w)
                /\ job_history'[call[w].job_id].status = "completed"
                /\ job_history'[call[w].job_id].resorts_processed
                       = ValidCount(w)]_vars

\* a run completed with one location valid and the others skipped
C9_Witness ==
    \E w \in Workers :
        /\ pc[w] = "done" /\ result[w] = 1
        /\ Len(model_runs) = 1
        /\ model_runs[1].status = "completed"
        /\ model_runs[1].resorts_processed = 1
        /\ Cardinality({f.resort_slug : f \in forecasts}) = 1
        /\ \E j \in 1..Len(job_history) :
               /\ job_history[j].status = "completed"
               /\ job_history[j].resorts_processed = 1

\* C10: the table holds at most one ModelRun row per (model_id,
\* run_datetime); a call for a pair that has a row works on that row.
C10_OneRowPerRun ==
    /\ \A i, j \in 1..Len(model_runs) :
          (/\ model_runs[i].model_id = model_runs[j].model_id
           /\ model_runs[i].run_datetime = model_runs[j].run_datetime)
          => i = j
    /\ \A w \in Workers :
          pc[w] \in {"resorts", "extracting", "persist", "jobdone"}
          => /\ call[w].mr_id \in 1..Len(model_runs)
             /\ model_runs[call[w].mr_id].model_id = call[w].model_id
             /\ model_runs[call[w].mr_id].run_datetime = call[w].run_dt

\* a caller works on a row that an earlier attempt had left failed, and the
\* table still holds one row
C10_Witness ==
    /\ Len(model_runs) = 1
    /\ \E w \in Workers :
          /\ pc[w] = "extracting"
          /\ call[w].mr_id = 1
          /\ model_runs[1].error = ErrNoHours("gfs")
          /\ Len(job_history) = 2

\* somebody is inside a call that works on row i
Claimant(i) ==
    \E w \in Workers :
        /\ pc[w] \in {"reset", "claim", "resorts", "extracting", "persist",
                      "jobdone"}
        /\ call[w].mr_id = i

\* C11: the row that the crashed actor left in processing leaves processing
\* (it is reset to failed by a later call), as long as the scheduler keeps
\* firing the model's job; the history table reaching its bound ends the
\* obligation.
C11_StuckRunLeavesProcessing ==
    (model_runs[1].status = "processing" /\ ~ Claimant(1))
    ~> (model_runs[1].status # "processing" \/ Len(job_history) > MaxHist)

\* the call of w for a candidate has ended by raising, and this step is the
\* loop of process_with_fallback handling it
HandlesRaise(w) ==
    /\ fb[w].state = "loop"
    /\ pc[w] = "raised"
    /\ fb'[w] # fb[w]

\* the loop goes on to the candidate before, or is past the last one
Retried(w) ==
    \/ /\ fb'[w].state = "loop"
       /\ fb'[w].idx = fb[w].idx + 1
    \/ /\ fb[w].idx = Len(fb[w].candidates)
       /\ fb'[w].state = "returned"
       /\ fb'[w].ret = 0

\* C12: process_with_fallback goes on to the previous candidate only when
\* process_model_run failed with 'No forecast hours extracted'; any other
\* failure (all data null, no locations, an exception that is no
\* ValueError) propagates unchanged and no older candidate is attempted.
C12_RetryOnlyOnNoHours ==
    [][\A w \in Workers :
          HandlesRaise(w)
          => IF exc[w] = ErrNoHours(fb[w].model_id)
             THEN Retried(w)
             ELSE /\ fb'[w].state = "raised"
                  /\ fb'[w].error = exc[w]
                  /\ fb'[w].idx = fb[w].idx]_vars

\* s is the first n elements of t
IsPrefix(s, t) ==
    /\ Len(s) <= Len(t)
    /\ \A i \in 1..Len(s) : s[i] = t[i]

\* C13: when every candidate fails with 'No forecast hours extracted',
\* process_with_fallback has attempted each candidate exactly once, newest
\* first, and returns 0 without raising: after such a failure the loop goes
\* on to the next older candidate, and after the last one it returns 0 with
\* the list of attempts equal to the list of candidates.
C13_AllCandidatesFailReturnsZero ==
    [][\A w \in Workers :
          (HandlesRaise(w) /\ exc[w] = ErrNoHours(fb[w].model_id))
          => /\ fb'[w].tried = Append(fb[w].tried,
                                      fb[w].candidates[fb[w].idx])
             /\ fb'[w].error = NoError
             /\ IF fb[w].idx < Len(fb[w].candidates)
                THEN /\ fb'[w].state = "loop"
                     /\ fb'[w].idx = fb[w].idx + 1
                     /\ fb[w].candidates[fb'[w].idx]
                            < fb[w].candidates[fb[w].idx]
                     /\ IsPrefix(fb'[w].tried, fb[w].candidates)
                ELSE /\ fb'[w].state = "returned"
                     /\ fb'[w].ret = 0
                     /\ fb'[w].tried = fb[w].candidates]_vars

\* both candidates failed with 'No forecast hours extracted' and the job
\* returned 0
C13_Witness ==
    \E w \in Workers :
        /\ fb[w].state = "returned" /\ fb[w].ret = 0
        /\ fb[w].tried = fb[w].candidates /\ Len(fb[w].tried) = 2
        /\ fb[w].last_error = ErrNoHours("gfs")
        /\ Len(model_runs) = 2
        /\ \A i \in 1..2 : /\ model_runs[i].status = "failed"
                           /\ model_runs[i].error = ErrNoHours("gfs")

\* C14: the candidates are tried newest first, one call at a time; the
\* result of the first call that does not raise is returned, a 0 for a
\* completed or freshly claimed run included; after it no call is made.
C14_FirstReturnEndsTheLoop ==
    /\ [](\A w \in Workers :
            /\ fb[w].state # "idle"
               => /\ IsPrefix(fb[w].tried, fb[w].candidates)
                  /\ \A i, j \in 1..Len(fb[w].candidates) :
                        i < j => fb[w].candidates[i] > fb[w].candidates[j]
            /\ fb[w].state = "loop"
               => /\ Len(fb[w].tried) = fb[w].idx - 1
                  /\ pc[w] # "idle"
                     => call[w].run_dt = fb[w].candidates[fb[w].idx]
            /\ fb[w].state \in {"returned", "raised"} => pc[w] = "idle")
    /\ [][\A w \in Workers :
            /\ (fb[w].state = "loop" /\ pc[w] = "done" /\ fb'[w] # fb[w])
               => /\ fb'[w].state = "returned"
                  /\ fb'[w].ret = result[w]
                  /\ fb'[w].tried = Append(fb[w].tried,
                                           fb[w].candidates[fb[w].idx])
            /\ fb[w].state = "returned"
               => /\ fb'[w] = fb[w]
                  /\ call'[w] = call[w]
                  /\ calls'[w] = calls[w]]_vars

\* the job returned the 0 of the latest candidate, which another caller has
\* freshly in flight, and did not go on to the candidate before
C14_Witness ==
    \E v, w \in Workers :
        /\ fb[w].state = "returned" /\ fb[w].ret = 0
        /\ fb[w].tried = <<fb[w].candidates[1]>>
        /\ pc[v] = "extracting"
        /\ call[v].run_dt = fb[w].candidates[1]
        /\ model_runs[call[v].mr_id].status = "processing"

\* the blend rows of the history table
BlendJobs == {j \in 1..Len(job_history) : job_history[j].job_type = "blend"}

\* what C15 says of every state but the number of sweeps: tasks are given
\* out for models that lack a completed run only, one task per model, and
\* the sweep starts when every task has ended
BootDispatch ==
    /\ boot.submitted \subseteq boot.models_to_process
    /\ boot.finished \subseteq boot.submitted
    /\ boot.models_to_process \subseteq MODEL_SCHEDULES
    /\ \A w \in Workers :
          fb[w].state # "idle"
          => /\ fb[w].model_id \in boot.submitted \ boot.finished
             /\ \A v \in Workers \ {w} :
                   fb[v].state # "idle" => fb[v].model_id # fb[w].model_id
    /\ boot.state \in {"blending", "done"}
       => /\ boot.finished = boot.models_to_process
          /\ \A w \in Workers : fb[w].state = "idle" /\ pc[w] = "idle"
    /\ BlendJobs # {} => boot.state \in {"blending", "done"}
    /\ Cardinality(BlendJobs) <= 1
    /\ boot.sweeps <= 1

\* what C15 says of every step: the models to process are those without a
\* completed run, and the end of one task, with an exception or without,
\* leaves every other task and the queue as they are
BootIsolation ==
    /\ (boot.state = "off" /\ boot'.state # "off")
       => boot'.models_to_process =
              {m \in MODEL_SCHEDULES :
                  \A i \in 1..Len(model_runs) :
                     ~ (/\ model_runs[i].model_id = m
                        /\ model_runs[i].status = "completed")}
    /\ \A w \in Workers :
          (\/ pc[w] # "raised" /\ pc'[w] = "raised"
           \/ fb[w].state = "loop" /\ fb'[w].state \in {"returned", "raised"}
           \/ fb[w].state \in {"returned", "raised"} /\ fb'[w] # fb[w])
          => /\ \A v \in Workers \ {w} :
                   /\ fb'[v] = fb[v]
                   /\ pc'[v] = pc[v]
                   /\ call'[v] = call[v]
             /\ boot'.state = boot.state
             /\ boot'.models_to_process = boot.models_to_process
             /\ boot'.submitted = boot.submitted
             /\ boot'.finished \in {boot.finished,
                                    boot.finished \cup {fb[w].model_id}}

\* C15 as stated: every model without a completed run gets a task of its
\* own, the end of one task does not touch the others, the sweep starts
\* after every task has ended, and when bootstrap_data is done the sweep
\* has run once.
C15_BlendRunsOnceAfterAllWorkers ==
    /\ [](BootDispatch /\ (boot.state = "done" => boot.sweeps = 1))
    /\ [][BootIsolation]_vars

\* C15 amended: the same, but the sweep runs once if some ModelRun is
\* completed when the tasks have ended, and not at all otherwise.
C15_BlendRunsAtMostOnceAfterAllWorkers ==
    /\ [](/\ BootDispatch
          /\ boot.state = "done"
             => boot.sweeps = IF CompletedModels(model_runs) # {}
                              THEN 1 ELSE 0)
    /\ [][BootIsolation]_vars

\* both models were processed, the task of one ended with an exception, the
\* other completed its run, and the sweep has run
C15_Witness ==
    /\ boot.state = "done" /\ boot.sweeps = 1
    /\ boot.models_to_process = MODEL_SCHEDULES
    /\ blend_forecasts # {}
    /\ \E i, j \in 1..Len(model_runs) :
          /\ model_runs[i].status = "failed"
          /\ model_runs[i].error = ErrDownload
          /\ model_runs[j].status = "completed"
          /\ model_runs[i].model_id # model_runs[j].model_id

\* w is inside a call that has claimed its run
InAttempt(w) == pc[w] \in {"resorts", "extracting", "persist", "jobdone"}

\* C16: a call that claims a run appends exactly one JobHistory row, of type
\* model_run and in status started; that row is completed or failed when
\* the call returns or raises; a call that skips appends none; rows are
\* never deleted, and a row is modified only by the call that appended it.
C16_OneJobHistoryRowPerAttempt ==
    [][/\ Len(job_history') >= Len(job_history)
       /\ Len(job_history') # Len(job_history)
          => /\ Len(job_history') = Len(job_history) + 1
             /\ \E w \in Workers :
                   /\ pc[w] = "claim" /\ pc'[w] = "resorts"
                   /\ call'[w].job_id = Len(job_history')
       /\ \A j \in 1..Len(job_history) :
             job_history'[j] # job_history[j]
             => \E w \in Workers :
                   /\ InAttempt(w) /\ call[w].job_id = j
                   /\ pc'[w] \in {"done", "raised"}
                   /\ \A v \in Workers \ {w} : call[v].job_id # j
       /\ \A w \in Workers :
             /\ (pc[w] = "claim" /\ pc'[w] = "resorts")
                => LET job == job_history'[Len(job_history')]
                   IN /\ Len(job_history') = Len(job_history) + 1
                      /\ job.job_type = "model_run"
                      /\ job.model_id = call[w].model_id
                      /\ job.status = "started"
             /\ (InAttempt(w) /\ ~ InAttempt(w)')
                => /\ pc'[w] \in {"done", "raised"}
                   /\ job_history'[call[w].job_id].status
                          \in {"completed", "failed"}
             /\ (BeginStep(w) \/ pc[w] \in {"reset", "claim"})
                 /\ pc'[w] \in {"done", "raised"}
                => job_history' = job_history]_vars

\* an attempt on a run that an earlier attempt had failed has failed too:
\* its own row carries its error, the row of the earlier attempt is as it
\* was
C16_Witness ==
    \E w \in Workers :
        /\ pc[w] = "raised" /\ exc[w] = ErrAllNull("gfs")
        /\ Len(job_history) = 2
        /\ job_history[1].status = "failed"
        /\ job_history[1].error = ErrNoHours("gfs")
        /\ job_history[2].status = "failed"
        /\ job_history[2].error = ErrAllNull("gfs")

\* C17: every forecast row in the table (what get_latest_forecast and the
\* blend sweep read) belongs to a run whose ModelRun row has status
\* completed.
C17_ForecastsAreOfCompletedRuns ==
    \A f \in forecasts :
        LET id == FindModelRun(model_runs, f.model_id, f.run_datetime)
        IN /\ id # 0
           /\ model_runs[id].status = "completed"

(* ------------------------------ compute_blend -------------------------- *)
BlendFields == {"hourly_data", "enhanced_hourly_data"}

\* the models that report var with a non-null value at hour h
Contributors(fs, field, var, h) ==
    {i \in 1..Len(fs) : Contributes(fs[i][field], var, h)}

\* sum(weight_m) and sum(value_m x weight_m) over the models of C, exactly
RECURSIVE ExactWeight(_, _)
ExactWeight(fs, C) ==
    IF C = {} THEN 0
    ELSE LET i == CHOOSE j \in C : TRUE
         IN model_weights(fs[i].model_id) + ExactWeight(fs, C \ {i})

RECURSIVE ExactSum(_, _, _, _, _)
ExactSum(fs, C, field, var, h) ==
    IF C = {} THEN 0
    ELSE LET i == CHOOSE j \in C : TRUE
         IN fs[i][field][var][h][1] * model_weights(fs[i].model_id)
            + ExactSum(fs, C \ {i}, field, var, h)

\* the forecasts that contribute to var at hour h, in their order
OnlyContributors(fs, field, var, h) ==
    LET Test(f) == Contributes(f[field], var, h)
    IN SelectSeq(fs, Test)

IsPowerOfTwo(x) == \E k \in 0..(2 * MantissaBits) : x = Pow2(k)

BlendReturned == blend_out.called /\ ~ blend_out.raised

\* C18 (as stated): for every variable and hour to which some model
\* contributes, the output times the sum of the contributing models' weights
\* equals the sum of their values times their weights, and with one
\* contributing model the output is that model's value.
C18_BlendIsTheWeightedAverage ==
    BlendReturned =>
        \A field \in BlendFields :
            \A var \in DOMAIN blend_out[field] :
                \A h \in 1..Len(blend_out.times_utc) :
                    LET fs == blend_in.forecasts
                        C == Contributors(fs, field, var, h)
                        o == blend_out[field][var][h]
                    IN C # {} =>
                        /\ o # None
                        /\ o[1] * ExactWeight(fs, C)
                               = ExactSum(fs, C, field, var, h)
                        /\ \A i \in C :
                               C = {i} => o = fs[i][field][var][h]

\* C18 (amended): for every variable and hour to which some model
\* contributes, the output is a float, it is the output that compute_blend
\* gives for the contributing forecasts alone (a model that lacks the
\* variable or is null at the hour changes nothing), it differs from the
\* exact weighted average of the contributing models by rounding only, and
\* with one contributing model whose weight is a power of two it is that
\* model's value.
C18_BlendIsTheRoundedWeightedAverage ==
    BlendReturned =>
        \A field \in BlendFields :
            \A var \in DOMAIN blend_out[field] :
                \A h \in 1..Len(blend_out.times_utc) :
                    LET fs == blend_in.forecasts
                        C == Contributors(fs, field, var, h)
                        o == blend_out[field][var][h]
                        W == ExactWeight(fs, C)
                        S == ExactSum(fs, C, field, var, h)
                    IN C # {} =>
                        /\ o # None
                        /\ o = BlendAt(OnlyContributors(fs, field, var, h),
                                       field, var, h)
                        /\ Abs(o[1] * W - S) * FloatOne
                               <= (2 * Cardinality(C) + 2) * S
                        /\ \A i \in C :
                               /\ C = {i}
                               /\ IsPowerOfTwo(model_weights(fs[i].model_id))
                               => o = fs[i][field][var][h]

\* two forecasts report a variable, one of them is null at an hour, and
\* the output at that hour is the other one's value
C18_Witness ==
    /\ BlendReturned
    /\ Len(blend_in.forecasts) = 2
    /\ \E field \in BlendFields :
           \E var \in DOMAIN blend_out[field] :
               \E h \in 1..Len(blend_out.times_utc) :
                   \E i, j \in 1..2 :
                       LET fs == blend_in.forecasts
                       IN /\ Contributors(fs, field, var, h) = {i}
                          /\ j # i
                          /\ var \in DOMAIN fs[j][field]
                          /\ h <= Len(fs[j][field][var])
                          /\ fs[j][field][var][h] = None
                          /\ fs[i][field][var][h][1] > 0
                          /\ blend_out[field][var][h] = fs[i][field][var][h]

\* C19: at an hour where no model contributes to a variable, the output is
\* None for an hourly variable and 0.0 for an enhanced variable; both
\* enhanced variables are always returned, and a call with at least one
\* forecast never raises.
C19_GapIsNullOrZero ==
    blend_out.called =>
        /\ blend_out.raised <=> (Len(blend_in.forecasts) = 0)
        /\ BlendReturned =>
              /\ DOMAIN blend_out.enhanced_hourly_data = enhanced_vars
              /\ \A field \in BlendFields :
                    \A var \in DOMAIN blend_out[field] :
                        \A h \in 1..Len(blend_out.times_utc) :
                            Contributors(blend_in.forecasts, field, var, h)
                                = {}
                            => blend_out[field][var][h]
                                   = IF field = "hourly_data"
                                     THEN None ELSE Some(0)

\* two forecasts, an hourly variable with a null sample in one forecast and
\* no sample in the other: the output is None there, and 0.0 for both
\* enhanced variables
C19_Witness ==
    /\ BlendReturned
    /\ Len(blend_in.forecasts) = 2
    /\ \E var \in DOMAIN blend_out.hourly_data :
           \E h \in 1..Len(blend_out.times_utc) :
               /\ Contributors(blend_in.forecasts, "hourly_data", var, h) = {}
               /\ \E i \in 1..2 :
                      /\ var \in DOMAIN blend_in.forecasts[i].hourly_data
                      /\ h <= Len(blend_in.forecasts[i].hourly_data[var])
               /\ blend_out.hourly_data[var][h] = None
               /\ \A e \in enhanced_vars :
                      blend_out.enhanced_hourly_data[e][h] = Some(0)

\* the smallest number of hours of any forecast
ShortestInput ==
    CHOOSE n \in {Len(blend_in.forecasts[i].times_utc) :
                     i \in 1..Len(blend_in.forecasts)} :
        \A i \in 1..Len(blend_in.forecasts) :
            n <= Len(blend_in.forecasts[i].times_utc)

\* C20: times_utc and the series of every hourly and enhanced variable
\* returned have the length of the shortest input; the times are the first
\* ones of the first forecast, and the sample at each hour is made of the
\* inputs at that same hour (an hourly sample is None exactly where no
\* model contributes at that hour).
C20_OutputHasShortestLength ==
    BlendReturned =>
        /\ Len(blend_out.times_utc) = ShortestInput
        /\ \A h \in 1..ShortestInput :
               blend_out.times_utc[h] = blend_in.forecasts[1].times_utc[h]
        /\ \A field \in BlendFields :
               \A var \in DOMAIN blend_out[field] :
                   /\ Len(blend_out[field][var]) = ShortestInput
                   /\ \A h \in 1..ShortestInput :
                          blend_out[field][var][h]
                              = BlendAt(blend_in.forecasts, field, var, h)
        /\ \A var \in DOMAIN blend_out.hourly_data :
               \A h \in 1..ShortestInput :
                   blend_out.hourly_data[var][h] = None
                   <=> Contributors(blend_in.forecasts, "hourly_data",
                                    var, h) = {}

\* two forecasts of different lengths, the first one the longer, and an
\* hourly variable returned with as many hours as the shorter one
C20_Witness ==
    /\ BlendReturned
    /\ Len(blend_in.forecasts) = 2
    /\ Len(blend_in.forecasts[1].times_utc)
           > Len(blend_in.forecasts[2].times_utc)
    /\ Len(blend_in.forecasts[2].times_utc) > 0
    /\ \E var \in DOMAIN blend_out.hourly_data :
           /\ Len(blend_out.hourly_data[var])
                  = Len(blend_in.forecasts[2].times_utc)
           /\ blend_out.hourly_data[var][1] # None

\* the forecasts without the i-th one
Without(fs, i) == SubSeq(fs, 1, i - 1) \o SubSeq(fs, i + 1, Len(fs))

\* C21: a model whose configured weight is 0 is excluded: compute_blend
\* returns the same times, lengths, variables and values with and without
\* that model's forecast among the inputs.
C21_ZeroWeightModelIsExcluded ==
    BlendReturned =>
        \A i \in 1..Len(blend_in.forecasts) :
            /\ model_weights(blend_in.forecasts[i].model_id) = 0
            /\ Len(blend_in.forecasts) > 1
            => blend_out = compute_blend(Without(blend_in.forecasts, i))

\* the forecasts supplied in the order p
Reordered(fs, p) == [i \in 1..Len(fs) |-> fs[p[i]]]

Orders(n) == {p \in [1..n -> 1..n] : \A i, j \in 1..n : i # j => p[i] # p[j]}

\* C30: the result of compute_blend is the same for every order in which
\* the same forecasts are supplied.
C30_BlendIgnoresTheOrder ==
    BlendReturned =>
        \A p \in Orders(Len(blend_in.forecasts)) :
            compute_blend(Reordered(blend_in.forecasts, p)) = blend_out

(* ------------------------ compute_ensemble_ranges ---------------------- *)
RangesReturned == args.fn = "compute_ensemble_ranges" /\ ret.called

\* C22 (as stated): for every variable and hour returned p10 <= p90, and
\* with a single forecast both bounds are that forecast's value at the
\* hour.
C22_RangesAreOrdered ==
    RangesReturned =>
        \A var \in DOMAIN ret.value :
            \A h \in 1..Len(ret.value[var].p10) :
                LET fs == args.ensemble_forecasts
                IN /\ ret.value[var].p10[h] <= ret.value[var].p90[h]
                   /\ Len(fs) = 1
                      => /\ Some(ret.value[var].p10[h]) = ValueAt(fs[1], var, h)
                         /\ Some(ret.value[var].p90[h]) = ValueAt(fs[1], var, h)

\* C22 (amended): for every variable and hour returned p10 <= p90; where
\* some forecast has a value both bounds are values of forecasts at that
\* hour, and where none has both are 0.0; with a single forecast both
\* bounds are that forecast's value at the hour, or 0.0 where it has none.
\* Every default variable is returned with p10 and p90 as long as the
\* shortest forecast.  For any number n of values the index of p10 is at
\* most the index of p90, and both are below n.
C22_RangesAreOrderedOrZero ==
    RangesReturned =>
        LET fs == args.ensemble_forecasts
        IN /\ \A n \in 1..(10 * MaxModels) :
                 /\ 0 <= p10_idx(n)
                 /\ p10_idx(n) <= p90_idx(n)
                 /\ p90_idx(n) < n
           /\ DOMAIN ret.value
                  = IF Len(fs) = 0 THEN {} ELSE range_variables
           /\ \A var \in DOMAIN ret.value :
                 /\ Len(ret.value[var].p10) = min_hours(fs)
                 /\ Len(ret.value[var].p90) = min_hours(fs)
                 /\ \A h \in 1..min_hours(fs) :
                       LET given == {ValueAt(fs[i], var, h) :
                                        i \in 1..Len(fs)} \ {None}
                           lo == ret.value[var].p10[h]
                           hi == ret.value[var].p90[h]
                       IN /\ lo <= hi
                          /\ IF given = {} THEN lo = 0 /\ hi = 0
                             ELSE Some(lo) \in given /\ Some(hi) \in given
                          /\ Len(fs) = 1 /\ given # {}
                             => ValueAt(fs[1], var, h) = Some(lo)

\* one forecast with a value at an hour, returned as both bounds, and two
\* forecasts with different values at an hour, returned as p10 < p90
C22_Witness ==
    /\ RangesReturned
    /\ Len(args.ensemble_forecasts) = 2
    /\ \E var \in DOMAIN ret.value :
           \E h \in 1..Len(ret.value[var].p10) :
               /\ ValueAt(args.ensemble_forecasts[1], var, h) # None
               /\ ValueAt(args.ensemble_forecasts[2], var, h) # None
               /\ ret.value[var].p10[h] < ret.value[var].p90[h]

(* --------------------------- compute_all_blends ------------------------ *)
SweepReturned == args.fn = "compute_all_blends" /\ ret.called

\* the blend of a pair in a table of blends
BlendOf(table, pair) ==
    {b \in table : b.resort_slug = pair[1] /\ b.elevation_type = pair[2]}

\* C23: when compute_all_blends returns, every pair of a location and an
\* elevation has been attempted once, in order; while it runs, a pair
\* without a forecast of any model adds no row and no error, and after an
\* exception the next pair is attempted; the count returned is the number
\* of pairs whose blend is stored with the forecasts it was made of, the
\* job has that count, and its error text is set only when a pair raised.
C23_SweepAttemptsEveryPair ==
    /\ [](SweepReturned =>
            /\ args.attempted = SweepPairs(NumResorts)
            /\ ret.value = Cardinality(args.written)
            /\ ret.value =
                   Cardinality({q \in AllResorts \X ElevationTypes :
                       BlendOf(blend_forecasts, q)
                           = {BlendRow(forecasts, q)}})
            /\ ret.value + args.errors
                   = Cardinality({q \in AllResorts \X ElevationTypes :
                        source_runs(forecasts, q[1], q[2]) # {}})
            /\ job_history[args.job_id].status = "completed"
            /\ job_history[args.job_id].resorts_processed = ret.value
            /\ (job_history[args.job_id].error = NoError)
                   <=> (args.errors = 0))
    /\ [][(args.fn = "compute_all_blends"
           /\ args'.fn = "compute_all_blends"
           /\ args' # args) =>
             LET pair == args.pairs[Len(args.attempted) + 1]
             IN /\ Len(args.attempted) < Len(args.pairs)
                /\ args'.attempted = Append(args.attempted, pair)
                /\ blend_forecasts' = blend_forecasts
                /\ source_runs(forecasts, pair[1], pair[2]) = {}
                   => /\ args'.written = args.written
                      /\ args'.errors = args.errors
                      /\ args'.count = args.count
                /\ args'.errors # args.errors
                   => /\ args'.written = args.written
                      /\ args'.count = args.count]_vars

\* a sweep returned after a pair without forecasts, a pair whose blending
\* raised and, after that one, a pair whose blend was stored
C23_Witness ==
    /\ SweepReturned
    /\ args.errors = 1
    /\ \E q \in AllResorts \X ElevationTypes :
           /\ source_runs(forecasts, q[1], q[2]) = {}
           /\ BlendOf(blend_forecasts, q) = BlendOf(OlderBlends, q)
    /\ \E i, j \in 1..Len(args.pairs) :
           /\ i < j
           /\ source_runs(forecasts, args.pairs[i][1], args.pairs[i][2]) # {}
           /\ BlendRow(forecasts, args.pairs[i]) \notin blend_forecasts
           /\ BlendRow(forecasts, args.pairs[j]) \in blend_forecasts
    /\ ret.value >= 1

(* ------------------------------ de_accumulate -------------------------- *)
DeAccumulateReturned == args.fn = "de_accumulate" /\ ret.called

NonDecreasing(values) ==
    /\ \A i \in 1..Len(values) : values[i] # None
    /\ \A i \in 1..(Len(values) - 1) : values[i][1] <= values[i + 1][1]

\* the exact sum of a series without nulls
RECURSIVE Total(_)
Total(values) ==
    IF Len(values) = 0 THEN 0
    ELSE values[1][1] + Total(Tail(values))

\* the last non-null value before index i, 0.0 if there is none
RECURSIVE Previous(_, _)
Previous(values, i) ==
    IF i = 1 THEN 0
    ELSE IF values[i - 1] # None THEN values[i - 1][1]
    ELSE Previous(values, i - 1)

\* every non-null output is >= 0, and 0 where the raw increment is negative
ClampedAtZero ==
    /\ Len(ret.value) = Len(args.values)
    /\ \A i \in 1..Len(args.values) :
          /\ (ret.value[i] = None) <=> (args.values[i] = None)
          /\ ret.value[i] # None
             => /\ ret.value[i][1] >= 0
                /\ args.values[i][1] - Previous(args.values, i) < 0
                   => ret.value[i][1] = 0

\* C24 (as stated): for a non-decreasing input without nulls the outputs
\* sum to the last input value; for any input every non-null output is
\* >= 0, and 0 where the raw increment is negative.
C24_IncrementsSumToTheLast ==
    DeAccumulateReturned =>
        /\ (NonDecreasing(args.values) /\ Len(args.values) > 0)
           => Total(ret.value) = args.values[Len(args.values)][1]
        /\ ClampedAtZero

\* C24 (amended): for a non-decreasing input without nulls whose first
\* value is >= 0 the outputs sum to the last input value up to the rounding
\* of the increments, and exactly when every increment is a float; for any
\* input every non-null output is >= 0, and 0 where the raw increment is
\* negative.
C24_IncrementsSumToTheLastFromZero ==
    DeAccumulateReturned =>
        /\ (/\ NonDecreasing(args.values)
            /\ Len(args.values) > 0
            /\ args.values[1][1] >= 0)
           => LET last == args.values[Len(args.values)][1]
              IN /\ Abs(Total(ret.value) - last) * FloatOne
                        <= Len(args.values) * last
                 /\ (\A i \in 2..Len(args.values) :
                        LET d == args.values[i][1] - args.values[i - 1][1]
                        IN Round(d, 1) = d)
                    => Total(ret.value) = last
        /\ ClampedAtZero

\* three increasing values from 0 on, returned as three increments of which
\* the last two are positive
C24_Witness ==
    /\ DeAccumulateReturned
    /\ Len(args.values) = 3
    /\ NonDecreasing(args.values)
    /\ args.values[1][1] >= 0
    /\ args.values[1][1] < args.values[2][1]
    /\ args.values[2][1] < args.values[3][1]
    /\ ret.value[2][1] > 0
    /\ ret.value[3][1] > 0
    /\ Total(ret.value) = args.values[3][1]

(* ---------------------------- build_hourly_data ------------------------ *)
HourlyReturned ==
    /\ args.fn = "build_hourly_data"
    /\ ret.called
    /\ Len(args.extracted_points) > 0

\* C27: for every model, the gusts returned are the model's direct gusts in
\* km/h when it provides some, and otherwise 1.5 x the wind speed returned,
\* None where the wind speed is None.
C27_GustsAreDirectOrEstimated ==
    HourlyReturned =>
        LET points == args.extracted_points
            out == ret.value.hourly_data
        IN \A h \in 1..Len(points) :
              IF \E k \in 1..Len(points) : points[k].wind_gusts # None
              THEN out.wind_gusts_10m[h]
                       = IF points[h].wind_gusts = None THEN None
                         ELSE Some(FMul(points[h].wind_gusts[1],
                                        Literal(36, 10)))
              ELSE out.wind_gusts_10m[h]
                       = IF out.wind_speed_10m[h] = None THEN None
                         ELSE Some(FMul(out.wind_speed_10m[h][1],
                                        Literal(15, 10)))

(* -------------------------- extract_all_hours_batch -------------------- *)
ExtractReturned == args.fn = "extract_all_hours_batch" /\ ret.called

\* the concatenation of a sequence of sequences
RECURSIVE Concat(_)
Concat(seqs) == IF Len(seqs) = 0 THEN <<>> ELSE seqs[1] \o Concat(Tail(seqs))

\* the chunks are consecutive slices of at most FASTHERBIE_CHUNK_SIZE
\* offsets, taken one after another, and what is returned has the shape of
\* an extraction: the offsets that have a file, in the order of the
\* request, and one list of results for each of them
ChunksInOrder ==
    /\ [](ExtractReturned =>
            /\ Concat(args.chunks) = args.fxx_range
            /\ \A k \in 1..Len(args.chunks) :
                  /\ Len(args.chunks[k]) <= FASTHERBIE_CHUNK_SIZE
                  /\ k < Len(args.chunks)
                     => Len(args.chunks[k]) = FASTHERBIE_CHUNK_SIZE
            /\ ret.available
                   = SelectSeq(args.fxx_range, LAMBDA f : f \in args.grib)
            /\ DOMAIN ret.results
                   = {ret.available[k] : k \in 1..Len(ret.available)})
    /\ [][(args' # args /\ ~ ret'.called) =>
             /\ Len(args'.chunks) = Len(args.chunks) + 1
             /\ Concat(args'.chunks)
                    = SubSeq(args.fxx_range, 1, Len(Concat(args'.chunks)))
             /\ \A f \in DOMAIN args.all_results :
                    /\ f \in DOMAIN args'.all_results
                    /\ args'.all_results[f] = args.all_results[f]]_vars

AvailableOf(chunk) == SelectSeq(chunk, LAMBDA f : f \in args.grib)

\* var is null at the offsets of the call whose own load failed and has
\* its value at the offsets whose own load gave one
NullOnlyWhereTheLoadFailed(var, chunk) ==
    \A k \in 1..Len(AvailableOf(chunk)) :
        LET f == AvailableOf(chunk)[k]
        IN /\ args.load[var][f] \in {"keyerror", "error"}
              => ret.results[f][1][var] = None
           /\ args.load[var][f] = "ok"
              => ret.results[f][1][var] = Some(GribValue(var, f))

\* C26 (as stated): whenever the batch load of a variable fails, whatever
\* the failure, the variable is null only at the offsets whose own load
\* failed and keeps its values at all other offsets.
C26_FallbackForAnyFailure ==
    ExtractReturned =>
        \A k \in 1..Len(args.chunks), var \in var_search :
            Batch(var, AvailableOf(args.chunks[k]), args.load) # "dataset"
            => NullOnlyWhereTheLoadFailed(var, args.chunks[k])

\* C26 (amended): whenever the batch load of a variable fails with an
\* exception other than KeyError, the variable is null only at the offsets
\* whose own load failed and keeps its values at all other offsets; when
\* it fails with KeyError the variable is null at every offset of the
\* call; in both cases the extraction returns, with every offset that has
\* a file and the values of the variables whose batch load succeeded.
C26_FallbackUnlessKeyError ==
    ExtractReturned =>
        \A k \in 1..Len(args.chunks), var \in var_search :
            LET batch == Batch(var, AvailableOf(args.chunks[k]), args.load)
            IN /\ batch = "Exception"
                  => NullOnlyWhereTheLoadFailed(var, args.chunks[k])
               /\ batch = "KeyError"
                  => \A j \in 1..Len(AvailableOf(args.chunks[k])) :
                        ret.results[AvailableOf(args.chunks[k])[j]][1][var]
                            = None
               /\ batch = "dataset"
                  => NullOnlyWhereTheLoadFailed(var, args.chunks[k])
               /\ \A j \in 1..Len(AvailableOf(args.chunks[k])) :
                     AvailableOf(args.chunks[k])[j] \in DOMAIN ret.results

\* one call whose batch load of precipitation failed with an exception
\* other than KeyError, returned with precipitation null at the offset
\* that failed and present at another offset of the same call
C26_Witness ==
    /\ ExtractReturned
    /\ \E k \in 1..Len(args.chunks) :
          LET a == AvailableOf(args.chunks[k])
          IN /\ Batch("precipitation", a, args.load) = "Exception"
             /\ \E i, j \in 1..Len(a) :
                   /\ args.load["precipitation"][a[i]] = "error"
                   /\ ret.results[a[i]][1]["precipitation"] = None
                   /\ ret.results[a[j]][1]["precipitation"] # None

(* ------------------- process_model_run: terminal states ---------------- *)
\* C28: completed is terminal under concurrency: once the status of a
\* ModelRun has been committed as completed, no later step of any call
\* changes it, the final write of a concurrent call included.
C28_CompletedIsTerminal ==
    [][\A i \in 1..Len(model_runs) :
          model_runs[i].status = "completed"
          => model_runs'[i].status = "completed"]_vars

\* C29: a call for a run whose row is failed does not return early and
\* writes nothing before its claim; its claim leaves the row in processing
\* with started_at set to the time of the claim and appends a JobHistory
\* row in status started; and the call then goes on to extraction (the
\* resorts table not being empty).  Every call that finds the row failed
\* does so, so a failed run is retried by every later call.
C29_FailedRunIsRetried ==
    [][\A w \in Workers :
          /\ (/\ BeginStep(w)
              /\ FoundId(w) # 0
              /\ model_runs[FoundId(w)].status = "failed")
             => (/\ pc'[w] = "claim"
                 /\ result'[w] = NULL
                 /\ exc'[w] = NoError
                 /\ call'[w].mr_id = FoundId(w)
                 /\ NoWrite)
          /\ (/\ pc[w] = "claim" /\ pc'[w] # "claim"
              /\ call[w].mr_id # 0)
             => (/\ pc'[w] = "resorts"
                 /\ model_runs'[call[w].mr_id].status = "processing"
                 /\ model_runs'[call[w].mr_id].started_at = now
                 /\ Len(job_history') = Len(job_history) + 1
                 /\ job_history'[Len(job_history')].status = "started"
                 /\ job_history'[Len(job_history')].model_id
                        = call[w].model_id
                 /\ job_history'[Len(job_history')].started_at = now
                 /\ \A j \in 1..Len(job_history) :
                        job_history'[j] = job_history[j])
          /\ (/\ pc[w] = "resorts" /\ pc'[w] # "resorts"
              /\ resorts # {})
             => pc'[w] = "extracting"]_vars

\* the run failed before the engine started; a later call found it failed,
\* claimed it with the time of the claim, opened a second JobHistory row
\* and is in extraction
C29_Witness ==
    \E w \in Workers :
        /\ calls[w] = 1 /\ \A v \in Workers \ {w} : calls[v] = 0
        /\ pc[w] = "extracting"
        /\ call[w].mr_id = 1
        /\ model_runs[1].status = "processing"
        /\ model_runs[1].started_at = TickSeconds
        /\ Len(job_history) = 2
        /\ job_history[1].status = "failed"
        /\ job_history[2].status = "started"
        /\ job_history[2].started_at = TickSeconds

====
